---------------------------- MODULE Spec2Model ----------------------------
(***************************************************************************)
(* A model of typescript-result-monad: the Result container               *)
(* (src/src/result.ts) and the combinators of src/src/errors.ts.          *)
(*                                                                         *)
(* The module holds one state machine per component; each has its own     *)
(* variables, initial predicate and next-state relation:                   *)
(*   SpecRetry  - retry(fn, options) with its backoff timer                *)
(*   SpecAsync  - asyncMap / asyncFlatMap / fromPromise / flatMap and the  *)
(*                abort signal, on a FIFO microtask queue                  *)
(*   SpecCombine - combineResults(results), one loop iteration per step    *)
(*   SpecResult - the factories and the synchronous operators of Result on *)
(*                a heap of Result objects, with fromPromise,              *)
(*                tryCatchAsync and combineResults as further factories    *)
(*   SpecChain  - chains of map, flatMap, tap, asyncMap and asyncFlatMap   *)
(*                on that heap, with the abort signal                      *)
(*   SpecBridge - promisifyWithResult(fn, ...args) with the callback it    *)
(*                hands to fn, next to tryCatchAsync                       *)
(*   SpecCause  - the constructors of the error classes and the cause      *)
(*                links between the error objects                          *)
(*   SpecValidator - the fluent Validator: withMessage, the rules,         *)
(*                property(), array() and validate()                       *)
(***************************************************************************)
EXTENDS Integers, Sequences, FiniteSets, TLC

VARIABLES
    \* ---- retry (src/src/errors.ts:244-274) ----
    rpc,            \* position of the retry coroutine
    options,        \* the second argument retry was called with
    maxAttempts,    \* const maxAttempts
    currentDelay,   \* let currentDelay
    lastError,      \* let lastError
    attempt,        \* the loop variable
    fnPromise,      \* the promise returned by the latest fn() call
    inFlight,       \* how many promises returned by fn are still pending
    timer,          \* the pending setTimeout of the backoff wait
    retryPromise,   \* the promise retry itself returned
    fnCalls,        \* how often fn was invoked
    attemptLog,     \* per invocation: "ok" or "fail"
    lastOutcome,    \* how the latest invocation ended, and with what
    waits,          \* the delays handed to setTimeout, in order
    \* ---- asyncMap, asyncFlatMap, fromPromise, flatMap (src/src/result.ts) ----
    apc,            \* position of the operator's coroutine
    call,           \* the operator called, its receiver, whether a signal is given
    signal,         \* the caller's AbortSignal: aborted, and our listener on it
    resultPromise,  \* the promise f returned, or the one given to fromPromise
    abortPromise,   \* the promise the abort listener rejects
    racePromise,    \* Promise.race([resultPromise, abortPromise])
    microtasks,     \* the promise jobs queued, first in first out
    opPromise,      \* the promise the operator returned
    completion,     \* how the synchronous flatMap call ended
    fCalls,         \* how often the transformer f was invoked
    hist,           \* what happened in which order (for the properties)
    \* ---- combineResults (src/src/errors.ts:135-146) ----
    cpc,            \* position of combineResults
    results,        \* its argument
    values,         \* const values
    idx,            \* the index the for-of iterator stands at (from 1)
    inspected,      \* the indexes of the elements whose fields were read
    combined,       \* the Result returned
    \* ---- Result objects and their operators (src/src/result.ts) ----
    heap,           \* the Result objects constructed, in order of construction
    cur,            \* the reference the chain of calls has arrived at
    last,           \* the latest call: operator, receiver, function, outcome
    chain,          \* the first failure of the chain and f's calls since
    \* ---- tryCatchAsync (src/src/errors.ts:153-162) ----
    tpc,            \* position of the tryCatchAsync coroutine
    tryPromise,     \* the promise fn returned
    tryThrown,      \* how fn ended: what it returned, threw or rejected with
    tryOut,         \* the promise tryCatchAsync returned
    \* ---- promisifyWithResult (src/src/errors.ts:170-193) ----
    ppc,            \* position of the call: in fn, or fn has left the executor
    promisified,    \* the promise promisifyWithResult returned
    events,         \* the callback invocations and the throw of fn, in order
    \* ---- the error classes (src/src/errors.ts:4-125) ----
    errs,           \* the error objects constructed, in order of construction
    \* ---- Validator (src/src/validation.ts:8-308) ----
    validators,     \* the Validator objects constructed, the root first
    vstack,         \* the property() and array() calls that have not returned
    vlog,           \* the calls made on the validators, in order
    validated       \* what validate() returned

retryVars == <<rpc, options, maxAttempts, currentDelay, lastError, attempt,
               fnPromise, inFlight, timer, retryPromise, fnCalls,
               attemptLog, lastOutcome, waits>>

asyncVars == <<apc, call, signal, resultPromise, abortPromise, racePromise,
               microtasks, opPromise, completion, fCalls, hist>>

combineVars == <<cpc, results, values, idx, inspected, combined>>

resultVars == <<heap, cur, last, chain, tpc, tryPromise, tryThrown,
                tryOut>>

promisifyVars == <<ppc, promisified, events>>

\* the components modelled further below
causeVars == <<errs>>

validatorVars == <<validators, vstack, vlog, validated>>

laterVars == <<promisifyVars, causeVars, validatorVars>>

vars == <<retryVars, asyncVars, combineVars, resultVars, laterVars>>

\* what a step of one component leaves alone
notRetryVars == <<asyncVars, combineVars, resultVars, laterVars>>

notAsyncVars == <<retryVars, combineVars, resultVars, laterVars>>

notCombineVars == <<retryVars, asyncVars, resultVars, laterVars>>

notResultVars == <<retryVars, asyncVars, combineVars, laterVars>>

notPromisifyVars == <<retryVars, asyncVars, combineVars, resultVars,
                      causeVars, validatorVars>>

notCauseVars == <<retryVars, asyncVars, combineVars, resultVars,
                  promisifyVars, validatorVars>>

notValidatorVars == <<retryVars, asyncVars, combineVars, resultVars,
                      promisifyVars, causeVars>>

tryVars == <<tpc, tryPromise, tryThrown, tryOut>>

---------------------------------------------------------------------------
(* Bounds of the model *)

\* the largest maxAttempts an options object is given
MaxRetries == 3

\* the longest array combineResults is given
MaxLen == 3

\* the most Result objects constructed
MaxObjects == 3

\* the most invocations of the callback promisifyWithResult hands to fn
MaxCallbacks == 2

\* the most error objects constructed
MaxErrors == 4

\* the most calls made on the validators of one validation
MaxCalls == 4

---------------------------------------------------------------------------
(* JavaScript values *)

Undefined == [t |-> "undefined"]

StrVal(s) == [t |-> "string", s |-> s]

NumVal(n) == [t |-> "number", n |-> n]

\* an object of class Error or one of its subclasses; ref tells two objects
\* with equal fields apart (reference identity)
NewError(name, message, ref) ==
    [t |-> "object", name |-> name, message |-> message,
     operationId |-> Undefined, ref |-> ref]

\* x instanceof Error
InstanceofError(x) == x.t = "object"

\* String(x)
JsString(x) ==
    CASE x.t = "string" -> x.s
      [] x.t = "number" -> ToString(x.n)
      [] x.t = "undefined" -> "undefined"
      [] x.t = "object" -> x.name \o ": " \o x.message

\* new TechnicalError(message): the message gets the kind's prefix
TechnicalError(message, ref) ==
    NewError("TechnicalError", "Technical Error: " \o message, ref)

\* new CancellationError(message, operationId)
CancellationError(message, operationId, ref) ==
    [t |-> "object", name |-> "CancellationError",
     message |-> "Cancellation: " \o message,
     operationId |-> operationId, ref |-> ref]

---------------------------------------------------------------------------
(* The Result class *)

\* private constructor(isSuccess, error, value, isCancelled = false)
NewResult(isSuccess, error, value, isCancelled) ==
    [isSuccess |-> isSuccess, isFailure |-> ~isSuccess,
     _value |-> value, _error |-> error, _isCancelled |-> isCancelled]

ResultOk(value) == NewResult(TRUE, Undefined, value, FALSE)

\* a fail that flags the failure as cancelled when it is handed a
\* CancellationError
ResultFailKeepsFlag(error) ==
    NewResult(FALSE, error, Undefined,
              error # Undefined /\ error.name = "CancellationError")

ResultFail(error) == NewResult(FALSE, error, Undefined, FALSE)

ResultCancelled(operationId) ==
    NewResult(FALSE,
              CancellationError("Operation was cancelled", operationId, "new"),
              Undefined, TRUE)

\* how a getter or a synchronous call ends
Return(v) == [type |-> "return", value |-> v]

Throw(x) == [type |-> "throw", value |-> x]

NoCompletion == [type |-> "none"]

\* get value(): throws on a failure
GetValue(self) ==
    IF ~self.isSuccess
    THEN Throw(NewError("Error",
                        "Cannot access value of a failed result. Error: "
                            \o (IF self._error = Undefined THEN "undefined"
                                ELSE self._error.message),
                        "new"))
    ELSE Return(self._value)

\* an error getter that hands out the field whatever the variant
GetErrorUnchecked(self) == Return(self._error)

\* get error(): throws on a success
GetError(self) ==
    IF ~self.isFailure
    THEN Throw(NewError("Error", "Cannot access error of a successful result",
                        "new"))
    ELSE Return(self._error)

\* get isCancelled()
GetIsCancelled(self) == self._isCancelled

---------------------------------------------------------------------------
(* Promises *)

Pending == [state |-> "pending"]

Fulfilled(v) == [state |-> "fulfilled", value |-> v]

Rejected(x) == [state |-> "rejected", value |-> x]

NoPromise == [state |-> "none"]

---------------------------------------------------------------------------
(* retry: inputs *)

DEFAULT_MAX_ATTEMPTS == 3

DEFAULT_DELAY_MS == 300

\* option values the caller may give; Undefined is an omitted key
MaxAttemptsInputs == {Undefined} \cup {NumVal(n) : n \in -1 .. MaxRetries}

DelayInputs == {Undefined, NumVal(0), NumVal(1), NumVal(10)}

\* the second argument: an options object, or (the README's positional call
\* retry(fn, retries, delay)) a number, whose properties are all undefined;
\* delay is the third argument of that call, for which retry has no parameter
OptionsInputs ==
    [form : {"object"}, maxAttempts : MaxAttemptsInputs, delayMs : DelayInputs]
    \cup [form : {"number"}, maxAttempts : {Undefined}, delayMs : {Undefined},
          n : 0 .. MaxRetries, delay : {10}]

\* a ?? that takes 0 for what is not given
NullishWithoutDefault(a, b) == IF a = Undefined THEN 0 ELSE a.n

\* a ?? b
Nullish(a, b) == IF a = Undefined THEN b ELSE a.n

\* error objects the caller's fn fails with
E1 == NewError("Error", "Persistent failure", "e1")

E2 == NewError("Error", "Attempt failed", "e2")

E3 == NewError("Error", "Unexpected error", "e3")

\* what fn's promise may fulfil with
FnResults == {ResultOk(StrVal("success")), ResultOk(NumVal(7)),
              ResultFail(E1), ResultFail(E2), ResultFail(Undefined)}

\* what fn may throw, or its promise reject with
Throwables == {E3, StrVal("boom"), NumVal(42), Undefined}

---------------------------------------------------------------------------
(* retry: the coroutine *)

InitRetry ==
    /\ rpc = "idle"
    /\ options = Undefined
    /\ maxAttempts = 0
    /\ currentDelay = 0
    /\ lastError = Undefined
    /\ attempt = 0
    /\ fnPromise = NoPromise
    /\ inFlight = 0
    /\ timer = NoPromise
    /\ retryPromise = NoPromise
    /\ fnCalls = 0
    /\ attemptLog = <<>>
    /\ lastOutcome = [how |-> "none", val |-> Undefined]
    /\ waits = <<>>

\* lines 248-252: read the options, enter the loop
RetryCall(opts) ==
    /\ rpc = "idle"
    /\ options' = opts
    /\ maxAttempts' = Nullish(opts.maxAttempts, DEFAULT_MAX_ATTEMPTS)
    /\ currentDelay' = Nullish(opts.delayMs, DEFAULT_DELAY_MS)
    /\ lastError' = Undefined
    /\ attempt' = 0
    /\ retryPromise' = Pending
    /\ rpc' = "loop"
    /\ UNCHANGED <<fnPromise, inFlight, timer, fnCalls, attemptLog, lastOutcome,
                   waits>>
    /\ UNCHANGED notRetryVars

\* a loop that counts attempts instead of retries
LoopTestOffByOne == attempt < maxAttempts

\* line 252: the loop test
LoopTest == attempt <= maxAttempts

\* a retry without the catch clause: the exception escapes the coroutine
CatchAttemptMissing(error) ==
    /\ retryPromise' = Rejected(error)
    /\ rpc' = "done"
    /\ UNCHANGED lastError

\* line 260: the catch clause
CatchAttempt(error) ==
    /\ lastError' = IF InstanceofError(error) THEN error
                    ELSE TechnicalError(JsString(error), "new")
    /\ rpc' = "afterAttempt"
    /\ UNCHANGED retryPromise

\* lines 252-254: the loop test holds and fn() throws synchronously
InvokeFnThrows(x) ==
    /\ rpc = "loop"
    /\ LoopTest
    /\ fnCalls' = fnCalls + 1
    /\ attemptLog' = Append(attemptLog, "fail")
    /\ lastOutcome' = [how |-> "threw", val |-> x]
    /\ CatchAttempt(x)
    /\ fnPromise' = NoPromise
    /\ UNCHANGED <<options, maxAttempts, currentDelay, attempt, inFlight,
                   timer, waits>>
    /\ UNCHANGED notRetryVars

\* fn() called without await: the promise itself is taken for the result
InvokeFnNotAwaited ==
    /\ rpc = "loop"
    /\ LoopTest
    /\ fnCalls' = fnCalls + 1
    /\ fnPromise' = Pending
    /\ inFlight' = inFlight + 1
    /\ lastError' = Undefined
    /\ attemptLog' = Append(attemptLog, "fail")
    /\ lastOutcome' = [how |-> "failure", val |-> ResultFail(Undefined)]
    /\ rpc' = "afterAttempt"
    /\ UNCHANGED <<options, maxAttempts, currentDelay, attempt, timer,
                   retryPromise, waits>>
    /\ UNCHANGED notRetryVars

\* lines 252-254: the loop test holds, fn() returns a promise, retry awaits it
InvokeFnReturns ==
    /\ rpc = "loop"
    /\ LoopTest
    /\ fnCalls' = fnCalls + 1
    /\ fnPromise' = Pending
    /\ inFlight' = inFlight + 1
    /\ rpc' = "awaitFn"
    /\ UNCHANGED <<options, maxAttempts, currentDelay, lastError, attempt,
                   timer, retryPromise, attemptLog, lastOutcome, waits>>
    /\ UNCHANGED notRetryVars

\* the caller's operation completes: fn's promise fulfils with a Result
FnFulfils(result) ==
    /\ fnPromise = Pending
    /\ fnPromise' = Fulfilled(result)
    /\ inFlight' = inFlight - 1
    /\ UNCHANGED <<rpc, options, maxAttempts, currentDelay, lastError, attempt,
                   timer, retryPromise, fnCalls, attemptLog, lastOutcome, waits>>
    /\ UNCHANGED notRetryVars

\* the caller's operation fails: fn's promise rejects
FnRejects(x) ==
    /\ fnPromise = Pending
    /\ fnPromise' = Rejected(x)
    /\ inFlight' = inFlight - 1
    /\ UNCHANGED <<rpc, options, maxAttempts, currentDelay, lastError, attempt,
                   timer, retryPromise, fnCalls, attemptLog, lastOutcome, waits>>
    /\ UNCHANGED notRetryVars

\* lines 254-258: the await resumes with the fulfilled Result
ResumeFulfilled ==
    /\ rpc = "awaitFn"
    /\ fnPromise.state = "fulfilled"
    /\ LET result == fnPromise.value IN
         IF result.isSuccess
         THEN \* line 256: return result
              /\ retryPromise' = Fulfilled(result)
              /\ rpc' = "done"
              /\ attemptLog' = Append(attemptLog, "ok")
              /\ lastOutcome' = [how |-> "ok", val |-> result]
              /\ UNCHANGED lastError
         ELSE \* line 258: lastError = result.error
              /\ lastError' = result._error
              /\ rpc' = "afterAttempt"
              /\ attemptLog' = Append(attemptLog, "fail")
              /\ lastOutcome' = [how |-> "failure", val |-> result]
              /\ UNCHANGED retryPromise
    /\ UNCHANGED <<options, maxAttempts, currentDelay, attempt, fnPromise,
                   inFlight, timer, fnCalls, waits>>
    /\ UNCHANGED notRetryVars

\* lines 254, 259-261: the await resumes by throwing the rejection
ResumeRejected ==
    /\ rpc = "awaitFn"
    /\ fnPromise.state = "rejected"
    /\ attemptLog' = Append(attemptLog, "fail")
    /\ lastOutcome' = [how |-> "rejected", val |-> fnPromise.value]
    /\ CatchAttempt(fnPromise.value)
    /\ UNCHANGED <<options, maxAttempts, currentDelay, attempt, fnPromise,
                   inFlight, timer, fnCalls, waits>>
    /\ UNCHANGED notRetryVars

\* lines 263-264: a failing attempt that is not the last schedules the wait
ScheduleWait ==
    /\ rpc = "afterAttempt"
    /\ attempt < maxAttempts
    /\ timer' = Pending
    /\ waits' = Append(waits, currentDelay)
    /\ rpc' = "sleep"
    /\ UNCHANGED <<options, maxAttempts, currentDelay, lastError, attempt,
                   fnPromise, inFlight, retryPromise, fnCalls, attemptLog, lastOutcome>>
    /\ UNCHANGED notRetryVars

\* lines 263, 269, 252: the last attempt failed: no wait, attempt++
SkipWait ==
    /\ rpc = "afterAttempt"
    /\ ~(attempt < maxAttempts)
    /\ attempt' = attempt + 1
    /\ rpc' = "loop"
    /\ UNCHANGED <<options, maxAttempts, currentDelay, lastError, fnPromise, inFlight,
                   timer, retryPromise, fnCalls, attemptLog, lastOutcome, waits>>
    /\ UNCHANGED notRetryVars

\* a backoff that waits the same delay every time
TimerFiresConstantDelay ==
    /\ rpc = "sleep"
    /\ timer = Pending
    /\ timer' = NoPromise
    /\ attempt' = attempt + 1
    /\ rpc' = "loop"
    /\ UNCHANGED <<options, maxAttempts, currentDelay, lastError, fnPromise,
                   inFlight, retryPromise, fnCalls, attemptLog, lastOutcome,
                   waits>>
    /\ UNCHANGED notRetryVars

\* lines 264-269, 252: the timer fires, the delay doubles, attempt++
TimerFires ==
    /\ rpc = "sleep"
    /\ timer = Pending
    /\ timer' = NoPromise
    /\ currentDelay' = currentDelay * 2
    /\ attempt' = attempt + 1
    /\ rpc' = "loop"
    /\ UNCHANGED <<options, maxAttempts, lastError, fnPromise, inFlight, retryPromise,
                   fnCalls, attemptLog, lastOutcome, waits>>
    /\ UNCHANGED notRetryVars

\* a return that reports the fallback error whatever the attempts reported
LoopExitDropsLastError ==
    /\ rpc = "loop"
    /\ ~LoopTest
    /\ retryPromise' = Fulfilled(ResultFail(
           TechnicalError("Failed after " \o ToString(maxAttempts)
                              \o " attempts", "new")))
    /\ rpc' = "done"
    /\ UNCHANGED <<options, maxAttempts, currentDelay, lastError, attempt,
                   fnPromise, inFlight, timer, fnCalls, attemptLog, lastOutcome, waits>>
    /\ UNCHANGED notRetryVars

\* lines 252, 271-273: the loop test fails: return the last failure
LoopExit ==
    /\ rpc = "loop"
    /\ ~LoopTest
    /\ retryPromise' = Fulfilled(ResultFail(
           IF lastError # Undefined THEN lastError
           ELSE TechnicalError("Failed after " \o ToString(maxAttempts)
                                   \o " attempts", "new")))
    /\ rpc' = "done"
    /\ UNCHANGED <<options, maxAttempts, currentDelay, lastError, attempt,
                   fnPromise, inFlight, timer, fnCalls, attemptLog, lastOutcome, waits>>
    /\ UNCHANGED notRetryVars

NextRetry ==
    \/ \E opts \in OptionsInputs : RetryCall(opts)
    \/ \E x \in Throwables : InvokeFnThrows(x)
    \/ InvokeFnReturns
    \/ \E result \in FnResults : FnFulfils(result)
    \/ \E x \in Throwables : FnRejects(x)
    \/ ResumeFulfilled
    \/ ResumeRejected
    \/ ScheduleWait
    \/ SkipWait
    \/ TimerFires
    \/ LoopExit

---------------------------------------------------------------------------
(* The asynchronous operators of Result, and flatMap *)

\* the catch clauses of result.ts:
\* error instanceof Error ? error : new Error(String(error))
NormalizeError(error) ==
    IF InstanceofError(error) THEN error
    ELSE NewError("Error", JsString(error), "new")

\* the Results the operators are called on
Receivers == {ResultOk(NumVal(42)), ResultFail(E1),
              ResultCancelled(StrVal("op-1"))}

\* what the promise of asyncMap's f, or fromPromise's promise, fulfils with
PlainValues == {NumVal(84), StrVal("data")}

\* what flatMap's f returns and the promise of asyncFlatMap's f fulfils with
InnerResults == {ResultOk(StrVal("42")), ResultFail(E2)}

FulfilValues(name) ==
    IF name = "asyncFlatMap" THEN InnerResults ELSE PlainValues

\* the states fromPromise's argument may be in when fromPromise is called
PromiseInputs ==
    {Pending} \cup {Fulfilled(v) : v \in PlainValues}
              \cup {Rejected(x) : x \in Throwables}

InitAsync ==
    /\ apc = "idle"
    /\ call = [name |-> "none"]
    /\ signal = [aborted |-> FALSE, listener |-> FALSE]
    /\ resultPromise = NoPromise
    /\ abortPromise = NoPromise
    /\ racePromise = NoPromise
    /\ microtasks = <<>>
    /\ opPromise = NoPromise
    /\ completion = NoCompletion
    /\ fCalls = 0
    /\ hist = [abortedAtCall |-> FALSE, abortWhilePending |-> FALSE,
               abortAt |-> "never", settledFirst |-> "none",
               fThrew |-> NoCompletion]

\* lines 112-117: flatMap, with f's completion when f is invoked
FlatMap(self, fCompletion) ==
    IF self.isFailure THEN Return(ResultFail(self._error))
    ELSE fCompletion

\* r.flatMap(f): a synchronous call
FlatMapCall(self, fCompletion) ==
    /\ apc = "idle"
    /\ call' = [name |-> "flatMap", self |-> self, hasSignal |-> FALSE,
                f |-> fCompletion]
    /\ fCalls' = IF self.isFailure THEN fCalls ELSE fCalls + 1
    /\ completion' = FlatMap(self, fCompletion)
    /\ apc' = "done"
    /\ UNCHANGED <<signal, resultPromise, abortPromise, racePromise,
                   microtasks, opPromise, hist>>
    /\ UNCHANGED notAsyncVars

\* an operator that maps before it looks at the receiver
AsyncCallOnFailureInvokesF(name, self, hasSignal) ==
    /\ apc = "idle"
    /\ self.isFailure
    /\ call' = [name |-> name, self |-> self, hasSignal |-> hasSignal]
    /\ hist' = [hist EXCEPT !.abortedAtCall = signal.aborted]
    /\ fCalls' = fCalls + 1
    /\ opPromise' = Fulfilled(ResultFail(self._error))
    /\ apc' = "done"
    /\ UNCHANGED <<signal, resultPromise, abortPromise, racePromise,
                   microtasks, completion>>
    /\ UNCHANGED notAsyncVars

\* an operator that looks at the signal before it looks at the receiver
AsyncCallOnFailureSignalFirst(name, self, hasSignal) ==
    /\ apc = "idle"
    /\ self.isFailure
    /\ call' = [name |-> name, self |-> self, hasSignal |-> hasSignal]
    /\ hist' = [hist EXCEPT !.abortedAtCall = signal.aborted]
    /\ opPromise' = IF hasSignal /\ signal.aborted
                    THEN Fulfilled(ResultCancelled(
                                       StrVal("Operation was aborted")))
                    ELSE Fulfilled(ResultFail(self._error))
    /\ apc' = "done"
    /\ UNCHANGED <<signal, resultPromise, abortPromise, racePromise,
                   microtasks, completion, fCalls>>
    /\ UNCHANGED notAsyncVars

\* lines 194-196 and 255-257: the receiver is a failure
AsyncCallOnFailureStep(name, self, hasSignal) ==
    /\ apc = "idle"
    /\ self.isFailure
    /\ call' = [name |-> name, self |-> self, hasSignal |-> hasSignal]
    /\ hist' = [hist EXCEPT !.abortedAtCall = signal.aborted]
    /\ opPromise' = Fulfilled(ResultFail(self._error))
    /\ apc' = "done"
    /\ UNCHANGED <<signal, resultPromise, abortPromise, racePromise,
                   microtasks, completion, fCalls>>

\* the call made on its own
AsyncCallOnFailure(name, self, hasSignal) ==
    /\ AsyncCallOnFailureStep(name, self, hasSignal)
    /\ UNCHANGED notAsyncVars

\* an operator without the eager check of signal.aborted: f is invoked
CallWhenAbortedUnchecked(name, self, promise) ==
    /\ apc = "idle"
    /\ IF name = "fromPromise" THEN TRUE ELSE ~self.isFailure
    /\ signal.aborted
    /\ call' = [name |-> name, self |-> self, hasSignal |-> TRUE]
    /\ hist' = [hist EXCEPT !.abortedAtCall = TRUE]
    /\ resultPromise' = IF name = "fromPromise" THEN promise ELSE Pending
    /\ fCalls' = IF name = "fromPromise" THEN fCalls ELSE fCalls + 1
    /\ opPromise' = Pending
    /\ apc' = IF name = "fromPromise" THEN "awaitPlain" ELSE "inF"
    /\ UNCHANGED <<signal, abortPromise, racePromise, microtasks, completion>>
    /\ UNCHANGED notAsyncVars

\* lines 200-202, 261-263 and 344-346: the signal is already aborted
CallWhenAbortedStep(name, self, promise) ==
    /\ apc = "idle"
    /\ IF name = "fromPromise" THEN TRUE ELSE ~self.isFailure
    /\ signal.aborted
    /\ call' = [name |-> name, self |-> self, hasSignal |-> TRUE]
    /\ hist' = [hist EXCEPT !.abortedAtCall = TRUE]
    /\ resultPromise' = IF name = "fromPromise" THEN promise ELSE NoPromise
    /\ opPromise' = Fulfilled(ResultCancelled(StrVal("Operation was aborted")))
    /\ apc' = "done"
    /\ UNCHANGED <<signal, abortPromise, racePromise, microtasks, completion,
                   fCalls>>

\* the call made on its own
CallWhenAborted(name, self, promise) ==
    /\ CallWhenAbortedStep(name, self, promise)
    /\ UNCHANGED notAsyncVars

\* lines 205 and 266: f is invoked and runs its synchronous part
InvokeFStep(name, self, hasSignal) ==
    /\ apc = "idle"
    /\ name \in {"asyncMap", "asyncFlatMap"}
    /\ ~self.isFailure
    /\ ~(hasSignal /\ signal.aborted)
    /\ call' = [name |-> name, self |-> self, hasSignal |-> hasSignal]
    /\ hist' = [hist EXCEPT !.abortedAtCall = signal.aborted]
    /\ fCalls' = fCalls + 1
    /\ resultPromise' = Pending
    /\ opPromise' = Pending
    /\ apc' = "inF"
    /\ UNCHANGED <<signal, abortPromise, racePromise, microtasks, completion>>

\* the call made on its own
InvokeF(name, self, hasSignal) ==
    /\ InvokeFStep(name, self, hasSignal)
    /\ UNCHANGED notAsyncVars

\* lines 237-241 and 296-300: f throws synchronously, the outer catch
FThrows(x) ==
    /\ apc = "inF"
    /\ resultPromise = Pending
    /\ resultPromise' = NoPromise
    /\ opPromise' = Fulfilled(ResultFail(NormalizeError(x)))
    /\ hist' = [hist EXCEPT !.fThrew = Throw(x)]
    /\ apc' = "done"
    /\ UNCHANGED <<call, signal, abortPromise, racePromise, microtasks,
                   completion, fCalls>>
    /\ UNCHANGED notAsyncVars

\* lines 208-222, 269-283 and 349-363: the listener is added, the race is
\* started and awaited. A promise already settled has its reaction queued.
StartRace ==
    /\ signal' = [signal EXCEPT !.listener = ~signal.aborted]
    /\ abortPromise' = Pending
    /\ racePromise' = Pending
    /\ microtasks' = IF resultPromise'.state = "pending" THEN microtasks
                     ELSE Append(microtasks, "raceFromResult")
    /\ apc' = "awaitRace"

\* lines 235, 295 and 374: no signal: the promise itself is awaited
AwaitPlain ==
    /\ microtasks' = IF resultPromise'.state = "pending" THEN microtasks
                     ELSE Append(microtasks, "resume")
    /\ apc' = "awaitPlain"
    /\ UNCHANGED <<signal, abortPromise, racePromise>>

\* lines 205-222 and 266-283: f returns its promise
FReturns ==
    /\ apc = "inF"
    /\ UNCHANGED resultPromise
    /\ IF call.hasSignal THEN StartRace ELSE AwaitPlain
    /\ UNCHANGED <<call, opPromise, completion, fCalls, hist>>
    /\ UNCHANGED notAsyncVars

\* lines 342-374: fromPromise(promise, signal?) with the signal not aborted
FromPromiseCallStep(promise, hasSignal) ==
    /\ apc = "idle"
    /\ ~(hasSignal /\ signal.aborted)
    /\ call' = [name |-> "fromPromise", self |-> Undefined,
                hasSignal |-> hasSignal]
    /\ hist' = [hist EXCEPT !.abortedAtCall = signal.aborted,
                            !.settledFirst =
                                IF signal.aborted THEN "none"
                                ELSE IF promise = Pending THEN "none"
                                ELSE promise.state]
    /\ resultPromise' = promise
    /\ opPromise' = Pending
    /\ IF hasSignal THEN StartRace ELSE AwaitPlain
    /\ UNCHANGED <<completion, fCalls>>

\* the call made on its own
FromPromiseCall(promise, hasSignal) ==
    /\ FromPromiseCallStep(promise, hasSignal)
    /\ UNCHANGED notAsyncVars

\* the reaction a settling resultPromise queues: that of Promise.race
\* (lines 222, 283, 363) or the continuation of the await (235, 295, 374)
ReactionOfResult ==
    IF racePromise # NoPromise THEN <<"raceFromResult">>
    ELSE IF apc = "awaitPlain" THEN <<"resume">>
    ELSE <<>>

\* the underlying operation completes: resultPromise fulfils
ResultFulfils(v) ==
    /\ resultPromise = Pending
    /\ v \in FulfilValues(call.name)
    /\ resultPromise' = Fulfilled(v)
    /\ microtasks' = microtasks \o ReactionOfResult
    /\ hist' = [hist EXCEPT !.settledFirst =
                   IF signal.aborted THEN @ ELSE "fulfilled"]
    /\ UNCHANGED <<apc, call, signal, abortPromise, racePromise, opPromise,
                   completion, fCalls>>
    /\ UNCHANGED notAsyncVars

\* the underlying operation fails: resultPromise rejects
ResultRejects(x) ==
    /\ resultPromise = Pending
    /\ resultPromise' = Rejected(x)
    /\ microtasks' = microtasks \o ReactionOfResult
    /\ hist' = [hist EXCEPT !.settledFirst =
                   IF signal.aborted THEN @ ELSE "rejected"]
    /\ UNCHANGED <<apc, call, signal, abortPromise, racePromise, opPromise,
                   completion, fCalls>>
    /\ UNCHANGED notAsyncVars

\* controller.abort(): the signal fires; lines 213-215, 274-276, 354-356: a
\* listener added before rejects abortPromise, whose reaction is queued
Abort ==
    /\ ~signal.aborted
    /\ signal' = [aborted |-> TRUE, listener |-> FALSE]
    /\ IF signal.listener
       THEN /\ abortPromise' =
                   Rejected(NewError("Error", "Operation aborted", "new"))
            /\ microtasks' = Append(microtasks, "raceFromAbort")
       ELSE UNCHANGED <<abortPromise, microtasks>>
    /\ hist' = [hist EXCEPT
                   !.abortWhilePending =
                       apc \in {"inF", "awaitRace", "awaitPlain"}
                       /\ resultPromise = Pending,
                   !.abortAt = apc]
    /\ UNCHANGED <<apc, call, resultPromise, racePromise, opPromise,
                   completion, fCalls>>
    /\ UNCHANGED notAsyncVars

\* a reaction of Promise.race runs: the first to run settles racePromise,
\* which queues the continuation of the await
RaceReaction(source) ==
    IF racePromise = Pending
    THEN /\ racePromise' = source
         /\ microtasks' = Append(Tail(microtasks), "resume")
    ELSE /\ microtasks' = Tail(microtasks)
         /\ UNCHANGED racePromise

RunRaceReaction ==
    /\ microtasks # <<>>
    /\ Head(microtasks) \in {"raceFromResult", "raceFromAbort"}
    /\ IF Head(microtasks) = "raceFromResult"
       THEN RaceReaction(resultPromise)
       ELSE RaceReaction(abortPromise)
    /\ UNCHANGED <<apc, call, signal, resultPromise, abortPromise, opPromise,
                   completion, fCalls, hist>>
    /\ UNCHANGED notAsyncVars

\* a continuation that looks at signal.aborted after a fulfilment too
OnFulfilledChecksSignal(name, value) ==
    IF signal.aborted THEN ResultCancelled(StrVal("Operation was aborted"))
    ELSE IF name = "asyncFlatMap" THEN value ELSE ResultOk(value)

\* lines 223, 283, 364 and 236, 295, 375: the awaited promise fulfilled
OnFulfilled(name, value) ==
    IF name = "asyncFlatMap" THEN value ELSE ResultOk(value)

\* lines 224-231, 284-291 and 365-370: the catch clause around the race
CatchRace(error) ==
    IF signal.aborted
    THEN ResultCancelled(StrVal("Operation was aborted"))
    ELSE ResultFail(NormalizeError(error))

\* the continuation of the await runs and the operator returns
Resume ==
    /\ microtasks # <<>>
    /\ Head(microtasks) = "resume"
    /\ microtasks' = Tail(microtasks)
    /\ LET awaited == IF apc = "awaitRace" THEN racePromise
                      ELSE resultPromise
       IN  opPromise' = Fulfilled(
               IF awaited.state = "fulfilled"
               THEN OnFulfilled(call.name, awaited.value)
               ELSE IF apc = "awaitRace" THEN CatchRace(awaited.value)
               ELSE ResultFail(NormalizeError(awaited.value)))
    /\ apc' = "done"
    /\ UNCHANGED <<call, signal, resultPromise, abortPromise, racePromise,
                   completion, fCalls, hist>>
    /\ UNCHANGED notAsyncVars

NextAsync ==
    \/ \E self \in Receivers :
         \E c \in {Return(r) : r \in InnerResults}
                    \cup {Throw(x) : x \in Throwables} :
            FlatMapCall(self, c)
    \/ \E name \in {"asyncMap", "asyncFlatMap"}, self \in Receivers,
          hasSignal \in BOOLEAN :
            AsyncCallOnFailure(name, self, hasSignal)
    \/ \E name \in {"asyncMap", "asyncFlatMap"}, self \in Receivers :
            CallWhenAborted(name, self, NoPromise)
    \/ \E promise \in PromiseInputs :
            CallWhenAborted("fromPromise", Undefined, promise)
    \/ \E name \in {"asyncMap", "asyncFlatMap"}, self \in Receivers,
          hasSignal \in BOOLEAN :
            InvokeF(name, self, hasSignal)
    \/ \E x \in Throwables : FThrows(x)
    \/ FReturns
    \/ \E promise \in PromiseInputs, hasSignal \in BOOLEAN :
            FromPromiseCall(promise, hasSignal)
    \/ \E v \in PlainValues \cup InnerResults : ResultFulfils(v)
    \/ \E x \in Throwables : ResultRejects(x)
    \/ Abort
    \/ RunRaceReaction
    \/ Resume

---------------------------------------------------------------------------
(* combineResults *)

\* an array value
ArrayVal(items) == [t |-> "array", items |-> items]

EV == NewError("ValidationError", "Validation Error: Invalid input", "ev")

\* the Results the array handed to combineResults may hold
CombineElements ==
    {ResultOk(NumVal(1)), ResultOk(NumVal(2)), ResultOk(Undefined),
     ResultFail(EV), ResultFail(E1),
     ResultCancelled(StrVal("op-1"))}

RECURSIVE SeqsUpTo(_, _)
SeqsUpTo(S, n) ==
    IF n = 0 THEN {<<>>}
    ELSE LET shorter == SeqsUpTo(S, n - 1)
         IN  shorter \cup {Append(q, e) : q \in shorter, e \in S}

CombineInputs == SeqsUpTo(CombineElements, MaxLen)

NoResult == [none |-> TRUE]

InitCombine ==
    /\ cpc = "idle"
    /\ results = <<>>
    /\ values = <<>>
    /\ idx = 1
    /\ inspected = {}
    /\ combined = NoResult

\* line 136: const values = []; the loop is entered
CombineCall(input) ==
    /\ cpc = "idle"
    /\ results' = input
    /\ values' = <<>>
    /\ idx' = 1
    /\ inspected' = {}
    /\ cpc' = "loop"
    /\ UNCHANGED combined
    /\ UNCHANGED notCombineVars

\* a combineResults that goes through the whole array and reports the last
\* failure in it
CombineFailureLastWins ==
    /\ cpc = "loop"
    /\ idx <= Len(results)
    /\ results[idx].isFailure
    /\ LET failing == {i \in 1 .. Len(results) : results[i].isFailure}
           lastFailing == CHOOSE i \in failing : \A j \in failing : j <= i
       IN  /\ inspected' = 1 .. Len(results)
           /\ combined' = ResultFail(GetError(results[lastFailing]).value)
    /\ cpc' = "done"
    /\ UNCHANGED <<results, values, idx>>
    /\ UNCHANGED notCombineVars

\* lines 138-141: the element is a failure: return a failure with its error
CombineFailure ==
    /\ cpc = "loop"
    /\ idx <= Len(results)
    /\ results[idx].isFailure
    /\ inspected' = inspected \cup {idx}
    /\ combined' = ResultFail(GetError(results[idx]).value)
    /\ cpc' = "done"
    /\ UNCHANGED <<results, values, idx>>
    /\ UNCHANGED notCombineVars

\* a combineResults that puts each value in front of the earlier ones
CombinePushFront ==
    /\ cpc = "loop"
    /\ idx <= Len(results)
    /\ ~results[idx].isFailure
    /\ inspected' = inspected \cup {idx}
    /\ values' = <<GetValue(results[idx]).value>> \o values
    /\ idx' = idx + 1
    /\ UNCHANGED <<cpc, results, combined>>
    /\ UNCHANGED notCombineVars

\* lines 138-142: the element is a success: values.push(result.value)
CombinePush ==
    /\ cpc = "loop"
    /\ idx <= Len(results)
    /\ ~results[idx].isFailure
    /\ inspected' = inspected \cup {idx}
    /\ values' = Append(values, GetValue(results[idx]).value)
    /\ idx' = idx + 1
    /\ UNCHANGED <<cpc, results, combined>>
    /\ UNCHANGED notCombineVars

\* line 145: the iterator is exhausted: return Result.ok(values)
CombineReturn ==
    /\ cpc = "loop"
    /\ idx > Len(results)
    /\ combined' = ResultOk(ArrayVal(values))
    /\ cpc' = "done"
    /\ UNCHANGED <<results, values, idx, inspected>>
    /\ UNCHANGED notCombineVars

NextCombine ==
    \/ \E input \in CombineInputs : CombineCall(input)
    \/ CombineFailure
    \/ CombinePush
    \/ CombineReturn

---------------------------------------------------------------------------
(* Result: the functions handed to the operators *)

\* x => x * 2, x => x.toString()
ValueFns == {"double", "toString"}

\* x => Result.ok(x * 2), () => Result.fail(e2), and a function that throws
ResultFns == {"okDouble", "failE2", "throws"}

\* e => new TypeError(e.message)
ErrorFns == {"typed"}

\* () => Result.ok(0), () => Result.fail(e2)
RecoverFns == {"okZero", "failE2"}

\* a mock that records its calls
Effects == {"log"}

\* whether f's parameter type admits x
Accepts(f, x) ==
    CASE f \in {"double", "okDouble"} -> x.t = "number"
      [] f = "toString" -> x.t \in {"number", "string"}
      [] f \in {"typed", "message"} -> x.t = "object"
      [] OTHER -> TRUE

\* f(x): how the call ends
CallFn(f, x) ==
    CASE f = "double" -> Return(NumVal(x.n * 2))
      [] f = "toString" -> Return(StrVal(JsString(x)))
      [] f = "message" -> Return(StrVal(x.message))
      [] f = "log" -> Return(Undefined)
      [] f = "typed" -> Return(NewError("TypeError", x.message, "new"))
      [] f = "okDouble" -> Return(ResultOk(NumVal(x.n * 2)))
      [] f = "okZero" -> Return(ResultOk(NumVal(0)))
      [] f = "failE2" -> Return(ResultFail(E2))
      [] f = "throws" -> Throw(E3)

---------------------------------------------------------------------------
(* Result: the operators, as functions of the receiver *)

\* what an operator returns: the receiver itself, its argument, or an object
\* it or f has constructed
This == [which |-> "this"]

Arg == [which |-> "arg"]

New(obj) == [which |-> "new", obj |-> obj]

\* an operator's outcome: how it ended, and the arguments f was called with
Outcome(out, calls) == [out |-> out, calls |-> calls]

\* the call f(x) inside an operator that wraps f's value with wrap
Invoke(f, x, wrap(_)) ==
    LET c == CallFn(f, x)
    IN  Outcome(IF c.type = "return" THEN Return(wrap(c.value)) ELSE c, <<x>>)

NewOk(v) == New(ResultOk(v))

NewFail(e) == New(ResultFail(e))

Same(v) == v

Ignore(v) == This

\* lines 92-97 for the function v => g(f(v))
MapComposed(self, g, f) ==
    IF self.isFailure THEN Outcome(Return(NewFail(self._error)), <<>>)
    ELSE LET a == CallFn(f, self._value)
             c == IF a.type = "return" THEN CallFn(g, a.value) ELSE a
         IN  Outcome(IF c.type = "return" THEN Return(NewOk(c.value)) ELSE c,
                     <<self._value>>)

\* a map that hands a failed receiver on as it is
MapReturnsFailedReceiver(self, f) ==
    IF self.isFailure THEN Outcome(Return(This), <<>>)
    ELSE Invoke(f, self._value, NewOk)

\* a map that leaves f's value aside and wraps the receiver's again
MapForgetsF(self, f) ==
    IF self.isFailure THEN Outcome(Return(NewFail(self._error)), <<>>)
    ELSE Outcome(Return(NewOk(self._value)), <<self._value>>)

\* lines 92-97
Map(self, f) ==
    IF self.isFailure THEN Outcome(Return(NewFail(self._error)), <<>>)
    ELSE Invoke(f, self._value, NewOk)

\* lines 102-107
MapError(self, f) ==
    IF self.isSuccess THEN Outcome(Return(NewOk(self._value)), <<>>)
    ELSE Invoke(f, self._error, NewFail)

\* a flatMap that hands on a copy of the receiver's error
FlatMapCopiesError(self, f) ==
    IF self.isFailure
    THEN Outcome(Return(NewFail([self._error EXCEPT !.ref = "copy"])), <<>>)
    ELSE Invoke(f, self._value, New)

\* lines 112-117, with the object f returns
FlatMapWith(self, f) ==
    IF self.isFailure THEN Outcome(Return(NewFail(self._error)), <<>>)
    ELSE Invoke(f, self._value, New)

\* a tap that invokes f whatever the receiver is
TapAlways(self, f) == Invoke(f, self._value, Ignore)

\* lines 122-127
Tap(self, f) ==
    IF self.isSuccess THEN Invoke(f, self._value, Ignore)
    ELSE Outcome(Return(This), <<>>)

\* lines 132-137
TapError(self, f) ==
    IF self.isFailure THEN Invoke(f, self._error, Ignore)
    ELSE Outcome(Return(This), <<>>)

\* lines 166-171
Recover(self, f) ==
    IF self.isSuccess THEN Outcome(Return(This), <<>>)
    ELSE Invoke(f, self._error, New)

\* lines 307-309
OrElse(self) ==
    Outcome(Return(IF self.isSuccess THEN This ELSE Arg), <<>>)

\* lines 142-147
Match(self, onSuccess, onFailure) ==
    IF self.isSuccess THEN Invoke(onSuccess, self._value, Same)
    ELSE Invoke(onFailure, self._error, Same)

\* lines 152-154
GetOrElse(self, defaultValue) ==
    Outcome(Return(IF self.isSuccess THEN self._value ELSE defaultValue), <<>>)

\* lines 159-161
GetOrCall(self, f) ==
    IF self.isSuccess THEN Outcome(Return(self._value), <<>>)
    ELSE Invoke(f, self._error, Same)

\* lines 176-181
ToPromise(self) ==
    Outcome(Return(IF self.isSuccess THEN Fulfilled(self._value)
                   ELSE Rejected(self._error)), <<>>)

\* a || b on strings
OrString(a, b) == IF a = "" THEN b ELSE a

\* lines 315-330
ToJSON(self) ==
    Outcome(Return(
        IF self.isSuccess THEN [success |-> TRUE, value |-> self._value]
        ELSE [success |-> FALSE,
              error |-> IF self._error = Undefined
                        THEN [name |-> "Error", message |-> "Unknown error"]
                        ELSE [name |-> OrString(self._error.name, "Error"),
                              message |-> OrString(self._error.message,
                                                   "Unknown error")]]),
        <<>>)

\* a fromThrowable that wraps whatever f threw
FromThrowableWrapsAll(fCompletion) ==
    IF fCompletion.type = "return" THEN ResultOk(fCompletion.value)
    ELSE ResultFail(NewError("Error", JsString(fCompletion.value), "new"))

\* lines 384-390, with how f() ends
FromThrowable(fCompletion) ==
    IF fCompletion.type = "return" THEN ResultOk(fCompletion.value)
    ELSE ResultFail(NormalizeError(fCompletion.value))

---------------------------------------------------------------------------
(* Result: the objects and the calls made on them *)

\* a reference to the i-th object constructed; NoRef refers to none
Ref(i) == [ref |-> i]

NoRef == Ref(0)

Deref(h, r) == h[r.ref]

NoCall == [op |-> "none", self |-> NoRef, f |-> "", arg |-> Undefined,
           out |-> NoCompletion, calls |-> <<>>]

InitResult ==
    /\ heap = <<>>
    /\ cur = NoRef
    /\ last = NoCall
    /\ chain = [failed |-> NoRef, calls |-> 0]
    /\ tpc = "idle"
    /\ tryPromise = NoPromise
    /\ tryThrown = NoCompletion
    /\ tryOut = NoPromise

\* the operators a chain is made of
ChainOps == {"map", "flatMap", "tap", "asyncMap", "asyncFlatMap"}

\* the chain after a call that arrived at reference r with heap h: the first
\* failure met since the chain's start, and how often a function handed to
\* an operator has been invoked since
ChainAfter(op, ncalls, r, h) ==
    IF op \in ChainOps /\ chain.failed # NoRef
    THEN [chain EXCEPT !.calls = @ + ncalls]
    ELSE [failed |-> IF r # NoRef /\ Deref(h, r).isFailure THEN r ELSE NoRef,
          calls |-> 0]

\* the caller makes one call at a time and awaits the asynchronous ones
CallerReady == apc = "idle" /\ tpc = "idle" /\ cpc = "idle"

\* a factory has constructed obj: a chain starts at it
Construct(op, f, arg, obj) ==
    /\ Len(heap) < MaxObjects
    /\ heap' = Append(heap, obj)
    /\ cur' = Ref(Len(heap) + 1)
    /\ last' = [op |-> op, self |-> NoRef, f |-> f, arg |-> arg,
                out |-> Return(cur'), calls |-> <<>>]
    /\ chain' = ChainAfter(op, 0, cur', heap')

\* an operator that returns a Result was called on cur and ended with o;
\* alt is the reference it was handed, if any
ResultCall(op, f, alt, o) ==
    /\ CallerReady
    /\ LET fresh == o.out.type = "return" /\ o.out.value.which = "new"
       IN  /\ fresh => Len(heap) < MaxObjects
           /\ heap' = IF fresh THEN Append(heap, o.out.value.obj) ELSE heap
           /\ cur' = IF o.out.type = "throw" THEN cur
                     ELSE IF fresh THEN Ref(Len(heap) + 1)
                     ELSE IF o.out.value.which = "arg" THEN alt
                     ELSE cur
           /\ last' = [op |-> op, self |-> cur,
                       f |-> IF o.calls = <<>> THEN "" ELSE f, arg |-> alt,
                       out |-> IF o.out.type = "throw" THEN o.out
                               ELSE Return(cur'),
                       calls |-> o.calls]
    /\ chain' = ChainAfter(op, Len(o.calls), cur', heap')
    /\ UNCHANGED tryVars
    /\ UNCHANGED notResultVars

\* an operator that returns a plain value was called on cur and ended with o
ValueCall(op, f, arg, o) ==
    /\ CallerReady
    /\ last' = [op |-> op, self |-> cur,
                f |-> IF o.calls = <<>> THEN "" ELSE f, arg |-> arg,
                out |-> o.out, calls |-> o.calls]
    /\ chain' = ChainAfter(op, Len(o.calls), cur, heap)
    /\ UNCHANGED <<heap, cur>>
    /\ UNCHANGED tryVars
    /\ UNCHANGED notResultVars

\* the values Result.ok is given
OkValues == {NumVal(42), Undefined}

\* a synchronous factory starts the chain
Factory(op, arg, obj) ==
    /\ CallerReady
    /\ heap = <<>>
    /\ Construct(op, "", arg, obj)
    /\ UNCHANGED tryVars
    /\ UNCHANGED notResultVars

\* lines 33-35
OkCall(value) == Factory("ok", value, ResultOk(value))

\* lines 40-42
FailCall(error) == Factory("fail", error, ResultFail(error))

\* lines 48-55
CancelledCall(operationId) ==
    Factory("cancelled", operationId, ResultCancelled(operationId))

\* lines 384-390: Result.fromThrowable(f), with how f() ends
FromThrowableCall(fCompletion) ==
    Factory("fromThrowable", fCompletion, FromThrowable(fCompletion))

\* the receiver of a call
Self == Deref(heap, cur)

\* r.map(f)
MapCall(f) ==
    /\ cur # NoRef
    /\ Self.isSuccess => Accepts(f, Self._value)
    /\ ResultCall("map", f, NoRef, Map(Self, f))

\* r.mapError(f)
MapErrorCall(f) ==
    /\ cur # NoRef
    /\ Self.isFailure => Accepts(f, Self._error)
    /\ ResultCall("mapError", f, NoRef, MapError(Self, f))

\* r.flatMap(f)
FlatMapResultCall(f) ==
    /\ cur # NoRef
    /\ Self.isSuccess => Accepts(f, Self._value)
    /\ ResultCall("flatMap", f, NoRef, FlatMapWith(Self, f))

\* r.tap(f)
TapCall(f) ==
    /\ cur # NoRef
    /\ ResultCall("tap", f, NoRef, Tap(Self, f))

\* r.tapError(f)
TapErrorCall(f) ==
    /\ cur # NoRef
    /\ ResultCall("tapError", f, NoRef, TapError(Self, f))

\* r.recover(f)
RecoverCall(f) ==
    /\ cur # NoRef
    /\ ResultCall("recover", f, NoRef, Recover(Self, f))

\* r.orElse(alternative), alternative being an object constructed before
OrElseCall(alternative) ==
    /\ cur # NoRef
    /\ ResultCall("orElse", "", alternative, OrElse(Self))

\* r.match(onSuccess, onFailure)
MatchCall(onSuccess, onFailure) ==
    /\ cur # NoRef
    /\ Self.isSuccess => Accepts(onSuccess, Self._value)
    /\ Self.isFailure => Accepts(onFailure, Self._error)
    /\ ValueCall("match", onSuccess, Undefined,
                 Match(Self, onSuccess, onFailure))

\* r.getOrElse(defaultValue)
GetOrElseCall(defaultValue) ==
    /\ cur # NoRef
    /\ ValueCall("getOrElse", "", defaultValue, GetOrElse(Self, defaultValue))

\* r.getOrCall(f)
GetOrCallCall(f) ==
    /\ cur # NoRef
    /\ Self.isFailure => Accepts(f, Self._error)
    /\ ValueCall("getOrCall", f, Undefined, GetOrCall(Self, f))

\* r.toPromise()
ToPromiseCall ==
    /\ cur # NoRef
    /\ ValueCall("toPromise", "", Undefined, ToPromise(Self))

\* r.toJSON()
ToJSONCall ==
    /\ cur # NoRef
    /\ ValueCall("toJSON", "", Undefined, ToJSON(Self))

\* the fields of a Result object
Fields == {"isSuccess", "isFailure", "_value", "_error", "_isCancelled"}

\* an object that the constructor has not frozen: the assignment takes effect
AssignFieldUnfrozen(r, field, v) ==
    /\ CallerReady
    /\ r.ref \in 1 .. Len(heap)
    /\ heap' = [heap EXCEPT ![r.ref][field] = v]
    /\ last' = [op |-> "assign", self |-> r, f |-> "", arg |-> Undefined,
                out |-> Return(Undefined), calls |-> <<>>]
    /\ UNCHANGED <<cur, chain>>
    /\ UNCHANGED tryVars
    /\ UNCHANGED notResultVars

\* line 27: (result as any)[field] = v on the frozen object: in the strict
\* mode of a module the assignment throws a TypeError and changes nothing
AssignField(r, field, v) ==
    /\ CallerReady
    /\ r.ref \in 1 .. Len(heap)
    /\ last' = [op |-> "assign", self |-> r, f |-> "", arg |-> Undefined,
                out |-> Throw(NewError("TypeError",
                                       "Cannot assign to read only property",
                                       "new")),
                calls |-> <<>>]
    /\ UNCHANGED <<heap, cur, chain>>
    /\ UNCHANGED tryVars
    /\ UNCHANGED notResultVars

\* ---- the asynchronous operators in a chain ----

\* the caller has made an asynchronous call and awaits it
CallMade(op) ==
    /\ last' = [op |-> op, self |-> cur, f |-> "", arg |-> Undefined,
                out |-> NoCompletion, calls |-> <<>>]
    /\ UNCHANGED <<heap, cur, chain>>
    /\ UNCHANGED tryVars
    /\ UNCHANGED <<retryVars, combineVars, laterVars>>

\* await r.asyncMap(f, signal?) or r.asyncFlatMap(f, signal?), r being cur:
\* the call returns at once on a failure or an aborted signal, else f runs
AsyncCallInChain(name, hasSignal) ==
    /\ tpc = "idle" /\ cpc = "idle"
    /\ cur # NoRef
    /\ Len(heap) < MaxObjects
    /\ IF Self.isFailure THEN AsyncCallOnFailureStep(name, Self, hasSignal)
       ELSE IF hasSignal /\ signal.aborted
            THEN CallWhenAbortedStep(name, Self, NoPromise)
            ELSE InvokeFStep(name, Self, hasSignal)
    /\ CallMade(name)

\* await Result.fromPromise(promise, signal?) at the chain's start
FromPromiseFactory(promise, hasSignal) ==
    /\ tpc = "idle" /\ cpc = "idle"
    /\ heap = <<>>
    /\ IF hasSignal /\ signal.aborted
       THEN CallWhenAbortedStep("fromPromise", Undefined, promise)
       ELSE FromPromiseCallStep(promise, hasSignal)
    /\ CallMade("fromPromise")

\* the caller's await of asyncMap, asyncFlatMap or fromPromise gets the
\* Result the operator resolved to, once the reactions queued by the call
\* have run; the operator's frame is given up (a listener left on the signal
\* has nothing more to reject)
Awaited ==
    /\ apc = "done"
    /\ call.name \in {"asyncMap", "asyncFlatMap", "fromPromise"}
    /\ opPromise.state = "fulfilled"
    /\ microtasks = <<>>
    /\ heap' = Append(heap, opPromise.value)
    /\ cur' = Ref(Len(heap) + 1)
    /\ last' = [op |-> call.name,
                self |-> IF call.name = "fromPromise" THEN NoRef ELSE cur,
                f |-> "", arg |-> Undefined,
                out |-> Return(cur'), calls |-> [i \in 1 .. fCalls |-> Undefined]]
    /\ chain' = ChainAfter(call.name, fCalls, cur', heap')
    /\ apc' = "idle"
    /\ call' = [name |-> "none"]
    /\ signal' = [signal EXCEPT !.listener = FALSE]
    /\ resultPromise' = NoPromise
    /\ abortPromise' = NoPromise
    /\ racePromise' = NoPromise
    /\ opPromise' = NoPromise
    /\ fCalls' = 0
    /\ hist' = [abortedAtCall |-> FALSE, abortWhilePending |-> FALSE,
                abortAt |-> "never", settledFirst |-> "none",
                fThrew |-> NoCompletion]
    /\ UNCHANGED <<microtasks, completion>>
    /\ UNCHANGED tryVars
    /\ UNCHANGED <<retryVars, combineVars, laterVars>>

\* combineResults(results) at the chain's start; what it returns is kept
\* in combined
CombineFactory(input) ==
    /\ CallerReady
    /\ heap = <<>>
    /\ CombineCall(input)

\* ---- tryCatchAsync ----

\* a catch clause that wraps as fromThrowable does
TryNormalizeAsFromThrowable(error) == NormalizeError(error)

\* new TechnicalError(String(error)) for what is no Error
TryNormalize(error) ==
    IF InstanceofError(error) THEN error
    ELSE TechnicalError(JsString(error), "new")

\* line 155: fn is invoked
TryCatchAsyncCall ==
    /\ CallerReady
    /\ heap = <<>>
    /\ tpc' = "inFn"
    /\ tryPromise' = NoPromise
    /\ tryThrown' = NoCompletion
    /\ tryOut' = Pending
    /\ UNCHANGED <<heap, cur, last, chain>>
    /\ UNCHANGED notResultVars

\* lines 157-161: fn throws before it returns a promise
TryFnThrows(x) ==
    /\ tpc = "inFn"
    /\ tryThrown' = Throw(x)
    /\ tryOut' = Fulfilled(ResultFail(TryNormalize(x)))
    /\ tpc' = "done"
    /\ UNCHANGED <<heap, cur, last, chain, tryPromise>>
    /\ UNCHANGED notResultVars

\* line 155: fn returns its promise, which is awaited
TryFnReturns ==
    /\ tpc = "inFn"
    /\ tryPromise' = Pending
    /\ tpc' = "awaitFn"
    /\ UNCHANGED <<heap, cur, last, chain, tryThrown, tryOut>>
    /\ UNCHANGED notResultVars

\* lines 155-156: the promise fulfils and tryCatchAsync returns
TryFnFulfils(v) ==
    /\ tpc = "awaitFn"
    /\ tryPromise' = Fulfilled(v)
    /\ tryThrown' = Return(v)
    /\ tryOut' = Fulfilled(ResultOk(v))
    /\ tpc' = "done"
    /\ UNCHANGED <<heap, cur, last, chain>>
    /\ UNCHANGED notResultVars

\* lines 157-161: the promise rejects and the catch clause returns
TryFnRejects(x) ==
    /\ tpc = "awaitFn"
    /\ tryPromise' = Rejected(x)
    /\ tryThrown' = Throw(x)
    /\ tryOut' = Fulfilled(ResultFail(TryNormalize(x)))
    /\ tpc' = "done"
    /\ UNCHANGED <<heap, cur, last, chain>>
    /\ UNCHANGED notResultVars

\* the caller's await of tryCatchAsync gets the Result
TryAwaited ==
    /\ tpc = "done"
    /\ tryOut.state = "fulfilled"
    /\ Construct("tryCatchAsync", "", tryThrown, tryOut.value)
    /\ tpc' = "idle"
    /\ tryPromise' = NoPromise
    /\ tryThrown' = NoCompletion
    /\ tryOut' = NoPromise
    /\ UNCHANGED notResultVars

\* what the functions handed to fromThrowable and tryCatchAsync return
ThunkValues == {StrVal("data")}

\* the references to the objects constructed
Refs == {Ref(i) : i \in 1 .. Len(heap)}

\* the value an assignment tries to store in a field: the negation of a
\* flag, another payload
AssignValue(r, field) ==
    IF r = NoRef THEN Undefined
    ELSE IF field \in {"isSuccess", "isFailure", "_isCancelled"}
    THEN ~Deref(heap, r)[field]
    ELSE NumVal(0)

\* the errors the promises of a chain reject with, and f throws
ChainThrowables == {E3, StrVal("boom")}

NextResult ==
    \/ \E value \in OkValues : OkCall(value)
    \/ FailCall(E1)
    \/ \E operationId \in {Undefined, StrVal("op-1")} :
            CancelledCall(operationId)
    \/ \E c \in {Return(v) : v \in ThunkValues}
                    \cup {Throw(x) : x \in Throwables} :
            FromThrowableCall(c)
    \/ \E f \in ValueFns : MapCall(f)
    \/ \E f \in ErrorFns : MapErrorCall(f)
    \/ \E f \in ResultFns : FlatMapResultCall(f)
    \/ \E f \in Effects : TapCall(f)
    \/ \E f \in Effects : TapErrorCall(f)
    \/ \E f \in RecoverFns : RecoverCall(f)
    \/ \E alternative \in Refs : OrElseCall(alternative)
    \/ MatchCall("toString", "message")
    \/ GetOrElseCall(NumVal(0))
    \/ GetOrCallCall("message")
    \/ ToPromiseCall
    \/ ToJSONCall
    \/ \E field \in Fields : AssignField(cur, field, AssignValue(cur, field))
    \/ \E promise \in PromiseInputs : FromPromiseFactory(promise, FALSE)
    \/ \E name \in {"asyncMap", "asyncFlatMap"} :
            AsyncCallInChain(name, FALSE)
    \/ FThrows(E3)
    \/ FReturns
    \/ \E v \in PlainValues \cup InnerResults : ResultFulfils(v)
    \/ \E x \in ChainThrowables : ResultRejects(x)
    \/ Resume
    \/ Awaited
    \/ TryCatchAsyncCall
    \/ \E x \in Throwables : TryFnThrows(x)
    \/ TryFnReturns
    \/ \E v \in ThunkValues : TryFnFulfils(v)
    \/ \E x \in Throwables : TryFnRejects(x)
    \/ TryAwaited
    \/ \E input \in CombineInputs : CombineFactory(input)
    \/ CombineFailure
    \/ CombinePush
    \/ CombineReturn

NextChain ==
    \/ OkCall(NumVal(42))
    \/ FailCall(E1)
    \/ CancelledCall(StrVal("op-1"))
    \/ \E promise \in PromiseInputs, hasSignal \in BOOLEAN :
            FromPromiseFactory(promise, hasSignal)
    \/ \E f \in ValueFns : MapCall(f)
    \/ \E f \in ResultFns : FlatMapResultCall(f)
    \/ \E f \in Effects : TapCall(f)
    \/ \E name \in {"asyncMap", "asyncFlatMap"}, hasSignal \in BOOLEAN :
            AsyncCallInChain(name, hasSignal)
    \/ \E x \in ChainThrowables : FThrows(x)
    \/ FReturns
    \/ \E v \in PlainValues \cup InnerResults : ResultFulfils(v)
    \/ \E x \in ChainThrowables : ResultRejects(x)
    \/ Abort
    \/ RunRaceReaction
    \/ Resume
    \/ Awaited

---------------------------------------------------------------------------
(* promisifyWithResult *)

Null == [t |-> "null"]

\* if (x): the values JavaScript takes for true
Truthy(x) ==
    CASE x.t = "object" -> TRUE
      [] x.t = "string" -> x.s # ""
      [] x.t = "number" -> x.n # 0
      [] OTHER -> FALSE

\* what fn hands to the callback as its first argument
CallbackErrors == {Null, Undefined, E3, StrVal("string error"), StrVal(""),
                   NumVal(0), NumVal(42)}

\* and as its second
CallbackResults == {StrVal("test processed"), Undefined}

InitPromisify ==
    /\ ppc = "idle"
    /\ promisified = NoPromise
    /\ events = <<>>

\* a resolve that settles the promise anew each time it is called
ResolveOverwrites(p, v) == Fulfilled(v)

\* resolve(v) of the promise's executor: a promise settles once, a later
\* resolve does nothing
Resolve(p, v) == IF p.state = "pending" THEN Fulfilled(v) ELSE p

\* a normalization that hands on whatever it is given
PromisifyNormalizeKeepsRaw(error) == error

\* lines 180 and 189
PromisifyNormalize(error) ==
    IF InstanceofError(error) THEN error
    ELSE TechnicalError(JsString(error), "new")

\* lines 174-176: the executor runs and invokes fn with the callback
PromisifyCall ==
    /\ ppc = "idle"
    /\ promisified = NoPromise
    /\ ppc' = "inFn"
    /\ promisified' = Pending
    /\ events' = <<>>
    /\ UNCHANGED notPromisifyVars

\* lines 176-186: fn invokes the callback, while it runs or any time later
Callback(error, result) ==
    /\ ppc \in {"inFn", "left"}
    /\ Len(events) < MaxCallbacks
    /\ events' = Append(events, [kind |-> "callback", error |-> error,
                                 result |-> result])
    /\ promisified' =
            IF Truthy(error)
            THEN Resolve(promisified, ResultFail(PromisifyNormalize(error)))
            ELSE Resolve(promisified, ResultOk(result))
    /\ UNCHANGED ppc
    /\ UNCHANGED notPromisifyVars

\* lines 187-191: fn throws
PromisifyFnThrows(x) ==
    /\ ppc = "inFn"
    /\ events' = Append(events, [kind |-> "throw", error |-> x,
                                 result |-> Undefined])
    /\ promisified' = Resolve(promisified, ResultFail(PromisifyNormalize(x)))
    /\ ppc' = "left"
    /\ UNCHANGED notPromisifyVars

\* line 176: fn returns
PromisifyFnReturns ==
    /\ ppc = "inFn"
    /\ ppc' = "left"
    /\ UNCHANGED <<promisified, events>>
    /\ UNCHANGED notPromisifyVars

NextBridge ==
    \/ PromisifyCall
    \/ \E error \in CallbackErrors, result \in CallbackResults :
            Callback(error, result)
    \/ \E x \in Throwables : PromisifyFnThrows(x)
    \/ PromisifyFnReturns
    \/ TryCatchAsyncCall
    \/ \E x \in Throwables : TryFnThrows(x)
    \/ TryFnReturns
    \/ \E v \in ThunkValues : TryFnFulfils(v)
    \/ \E x \in Throwables : TryFnRejects(x)
    \/ TryAwaited

---------------------------------------------------------------------------
(* The error classes and their causes *)

\* an error object is referred to by the position at which it was
\* constructed; 0 stands for undefined (no cause given)
NoCause == 0

InitCause == errs = <<>>

\* the subclasses of ResultError constructed here, with the prefix each
\* constructor puts before its message
ErrorClasses == {"TechnicalError", "NotFoundError", "BusinessRuleError"}

Prefix(name) ==
    CASE name = "TechnicalError" -> "Technical Error: "
      [] name = "NotFoundError" -> "Not Found: "
      [] name = "BusinessRuleError" -> "Business Rule Violation: "
      [] OTHER -> ""

\* a constructor that takes the new object for its own cause
ResultErrorSelfCause(self, name, message, cause) ==
    [t |-> "object", name |-> name, message |-> message, cause |-> self,
     stack |-> <<self>>]

\* lines 8-19: the constructor of ResultError, run for the object at
\* position self; the stack holds the object's own trace and, after it, the
\* trace of the cause
ResultError(self, name, message, cause) ==
    [t |-> "object", name |-> name, message |-> message, cause |-> cause,
     stack |-> IF cause # NoCause THEN <<self>> \o errs[cause].stack
               ELSE <<self>>]

\* new Error(message), as in the tests: an error from outside the package
NewPlainError(message) ==
    /\ Len(errs) < MaxErrors
    /\ errs' = Append(errs, [t |-> "object", name |-> "Error",
                             message |-> message, cause |-> NoCause,
                             stack |-> <<Len(errs) + 1>>])
    /\ UNCHANGED notCauseVars

\* new TechnicalError(message, cause) and the other subclasses: cause is an
\* error object that exists, or is not given
NewResultError(name, message, cause) ==
    /\ Len(errs) < MaxErrors
    /\ errs' = Append(errs, ResultError(Len(errs) + 1, name,
                                        Prefix(name) \o message, cause))
    /\ UNCHANGED notCauseVars

NextCause ==
    \/ NewPlainError("connection refused")
    \/ \E name \in ErrorClasses, cause \in 0 .. Len(errs) :
            NewResultError(name, "failed", cause)

---------------------------------------------------------------------------
(* Validator *)

\* a message is a sequence of pieces of text; the placeholder '{path}' is a
\* piece of its own, so that replace('{path}', ...) can find it
Placeholder == "{path}"

\* message.replace('{path}', path): the first occurrence only
RECURSIVE Replace(_, _)
Replace(message, path) ==
    IF message = <<>> THEN <<>>
    ELSE IF Head(message) = Placeholder THEN <<path>> \o Tail(message)
    ELSE <<Head(message)>> \o Replace(Tail(message), path)

\* parts.join(sep)
RECURSIVE JoinStr(_, _)
JoinStr(parts, sep) ==
    IF parts = <<>> THEN ""
    ELSE IF Len(parts) = 1 THEN parts[1]
    ELSE parts[1] \o sep \o JoinStr(Tail(parts), sep)

\* a message held as a value that may also be undefined
MsgVal(message) == [t |-> "string", parts |-> message]

\* the text of a message
Text(message) == JoinStr(message, "")

\* an object with the given properties
ObjVal(fields) == [t |-> "record", fields |-> fields]

\* value[name]
Get(value, name) ==
    IF name \in DOMAIN value.fields THEN value.fields[name] ELSE Undefined

\* the objects validated: a user with a name, an age and a list of tags
RootValues ==
    {ObjVal([name |-> n, age |-> NumVal(17), tags |-> g]) :
        n \in {StrVal(""), StrVal("Ann"), Undefined},
        g \in {ArrayVal(<<StrVal("a"), StrVal("  ")>>), Undefined}}

PropertyNames == {"name", "age"}

ArrayNames == {"tags"}

\* s.trim(), for the strings validated here
Trim(s) == IF s = "  " THEN "" ELSE s

Rules == {"required", "notEmpty", "isNumber"}

\* the condition under which a rule adds its error
Fails(rule, value) ==
    CASE rule = "required" -> value \in {Null, Undefined}
      [] rule = "notEmpty" -> value.t = "string" /\ Trim(value.s) = ""
      [] rule = "isNumber" -> value.t # "number"

\* the message a rule reports by default
DefaultMessage(rule) ==
    CASE rule = "required" -> <<Placeholder, " is required">>
      [] rule = "notEmpty" -> <<Placeholder, " cannot be empty">>
      [] rule = "isNumber" -> <<Placeholder, " must be a number">>

\* the messages given to withMessage
CustomMessages == {<<"Please fill this in">>}

\* lines 19-21 and the field initializers
NewValidator(value) ==
    [_value |-> value, _errors |-> <<>>, _currentPropertyPath |-> <<>>,
     _customErrorMessage |-> Undefined]

NoValidation == [isSuccess |-> FALSE, isFailure |-> FALSE]

InitValidator ==
    /\ validators = <<>>
    /\ vstack = <<>>
    /\ vlog = <<>>
    /\ validated = NoValidation

\* the validator the caller's next call is made on: the root, or inside the
\* function given to property() or array() the validator it was handed
InCallback == vstack # <<>> /\ vstack[Len(vstack)].kind \in {"property", "item"}

Current == IF vstack = <<>> THEN 1 ELSE vstack[Len(vstack)].child

CanCall ==
    /\ validators # <<>>
    /\ validated = NoValidation
    /\ vstack = <<>> \/ InCallback
    /\ Len(vlog) < MaxCalls

\* where the current validator's value lies in the root value: the property
\* names and item indexes of the calls that have not returned
RECURSIVE PathOf(_)
PathOf(stack) ==
    IF stack = <<>> THEN <<>>
    ELSE IF stack[1].kind = "array" THEN PathOf(Tail(stack))
    ELSE <<stack[1].name>> \o PathOf(Tail(stack))

\* lines 301-307
AddError(v, errorMessage) ==
    LET path == IF Len(v._currentPropertyPath) > 0
                THEN JoinStr(v._currentPropertyPath, ".") ELSE "value"
    IN  [v EXCEPT !._errors = Append(@, Replace(errorMessage, path)),
                  !._customErrorMessage = Undefined]

\* lines 39-41: Validator.for(value), or validate(value)
ValidatorFor(value) ==
    /\ validators = <<>>
    /\ validators' = <<NewValidator(value)>>
    /\ UNCHANGED <<vstack, vlog, validated>>
    /\ UNCHANGED notValidatorVars

\* lines 132-135
WithMessage(message) ==
    /\ CanCall
    /\ validators' = [validators EXCEPT
                        ![Current]._customErrorMessage = MsgVal(message)]
    /\ vlog' = Append(vlog, [op |-> "withMessage", v |-> Current,
                             rule |-> "", failed |-> FALSE,
                             message |-> message, path |-> PathOf(vstack)])
    /\ UNCHANGED <<vstack, validated>>
    /\ UNCHANGED notValidatorVars

\* lines 142-159 and 192-197: required(), notEmpty(), isNumber()
RuleCall(rule) ==
    /\ CanCall
    /\ LET v == validators[Current]
           failed == Fails(rule, v._value)
           \* this._customErrorMessage || '{path} ...'
           message == IF v._customErrorMessage # Undefined
                         /\ v._customErrorMessage.parts # <<>>
                      THEN v._customErrorMessage.parts
                      ELSE DefaultMessage(rule)
       IN  /\ validators' = IF failed
                            THEN [validators EXCEPT
                                    ![Current] = AddError(v, message)]
                            ELSE validators
           /\ vlog' = Append(vlog, [op |-> "rule", v |-> Current,
                                    rule |-> rule, failed |-> failed,
                                    message |-> message,
                                    path |-> PathOf(vstack)])
    /\ UNCHANGED <<vstack, validated>>
    /\ UNCHANGED notValidatorVars

\* lines 54-58: property(name, validationFn) up to the call of validationFn
PropertyEnter(name) ==
    /\ CanCall
    /\ validators[Current]._value.t = "record"
    /\ validators' = Append(
            [validators EXCEPT
                ![Current]._currentPropertyPath = Append(@, name)],
            NewValidator(Get(validators[Current]._value, name)))
    /\ vstack' = Append(vstack, [kind |-> "property", name |-> name,
                                 parent |-> Current,
                                 child |-> Len(validators) + 1])
    /\ vlog' = Append(vlog, [op |-> "property", v |-> Current,
                             rule |-> "", failed |-> FALSE,
                             message |-> <<>>, path |-> PathOf(vstack)])
    /\ UNCHANGED validated
    /\ UNCHANGED notValidatorVars

\* lines 60-65 and 114-118: the child's messages go to the parent
Collect(parent, child) ==
    [parent EXCEPT !._errors = @ \o
        [i \in 1 .. Len(child._errors) |->
            Replace(child._errors[i],
                    JoinStr(parent._currentPropertyPath, "."))]]

\* _currentPropertyPath.pop()
Pop(v) ==
    [v EXCEPT !._currentPropertyPath = SubSeq(@, 1, Len(@) - 1)]

\* lines 58-68: validationFn returns, and then property() does
PropertyExit ==
    /\ vstack # <<>>
    /\ LET frame == vstack[Len(vstack)]
       IN  /\ frame.kind = "property"
           /\ validators' = [validators EXCEPT ![frame.parent] =
                    Pop(Collect(@, validators[frame.child]))]
    /\ vstack' = SubSeq(vstack, 1, Len(vstack) - 1)
    /\ UNCHANGED <<vlog, validated>>
    /\ UNCHANGED notValidatorVars

\* lines 96-110: array(name, validator) up to the first item; a property
\* that is missing or no array is reported, an empty array has no items
ArrayCall(name) ==
    /\ CanCall
    /\ validators[Current]._value.t = "record"
    /\ LET v == validators[Current]
           property == Get(v._value, name)
           missing == ~Truthy(property) /\ property.t # "array"
           message == IF missing
                      THEN <<"Property '" \o name \o "' is missing or null">>
                      ELSE <<"Property '" \o name \o "' is not an array">>
       IN  /\ IF missing \/ property.t # "array"
              THEN /\ validators' = [validators EXCEPT ![Current] =
                                        AddError(v, message)]
                   /\ UNCHANGED vstack
              ELSE IF property.items = <<>>
              THEN UNCHANGED <<validators, vstack>>
              ELSE /\ validators' = [validators EXCEPT
                        ![Current]._currentPropertyPath = Append(@, name)]
                   /\ vstack' = Append(vstack,
                        [kind |-> "array", name |-> name,
                         parent |-> Current, items |-> property.items,
                         index |-> 0])
           /\ vlog' = Append(vlog, [op |-> "array", v |-> Current,
                                    rule |-> "",
                                    failed |-> missing \/ property.t # "array",
                                    message |-> message,
                                    path |-> PathOf(vstack)])
    /\ UNCHANGED validated
    /\ UNCHANGED notValidatorVars

\* lines 110-113: forEach arrives at an item and calls validator on it
ItemEnter ==
    /\ vstack # <<>>
    /\ LET frame == vstack[Len(vstack)]
           segment == "[" \o ToString(frame.index) \o "]"
       IN  /\ frame.kind = "array"
           /\ frame.index < Len(frame.items)
           /\ validators' = Append(
                    [validators EXCEPT
                        ![frame.parent]._currentPropertyPath =
                            Append(@, segment)],
                    NewValidator(frame.items[frame.index + 1]))
           /\ vstack' = Append(vstack,
                    [kind |-> "item", name |-> segment,
                     parent |-> frame.parent,
                     child |-> Len(validators) + 1])
    /\ UNCHANGED <<vlog, validated>>
    /\ UNCHANGED notValidatorVars

\* lines 113-123: validator returns; after the last item array() pops the
\* property name and returns
ItemExit ==
    /\ Len(vstack) >= 2
    /\ LET frame == vstack[Len(vstack)]
           loop == vstack[Len(vstack) - 1]
           last_item == loop.index + 1 = Len(loop.items)
           collected == Pop(Collect(validators[frame.parent],
                                    validators[frame.child]))
       IN  /\ frame.kind = "item"
           /\ validators' = [validators EXCEPT ![frame.parent] =
                    IF last_item THEN Pop(collected) ELSE collected]
           /\ vstack' = IF last_item THEN SubSeq(vstack, 1, Len(vstack) - 2)
                        ELSE Append(SubSeq(vstack, 1, Len(vstack) - 2),
                                    [loop EXCEPT !.index = @ + 1])
    /\ UNCHANGED <<vlog, validated>>
    /\ UNCHANGED notValidatorVars

\* lines 288-294: validate() on the root, once its calls have returned
Validate ==
    /\ validators # <<>>
    /\ vstack = <<>>
    /\ validated = NoValidation
    /\ LET v == validators[1]
       IN  validated' =
             IF Len(v._errors) = 0 THEN ResultOk(v._value)
             ELSE ResultFail(NewError("ValidationError",
                    "Validation Error: " \o
                        JoinStr([i \in 1 .. Len(v._errors) |->
                                    Text(v._errors[i])], ", "),
                    "new"))
    /\ UNCHANGED <<validators, vstack, vlog>>
    /\ UNCHANGED notValidatorVars

NextValidator ==
    \/ \E value \in RootValues : ValidatorFor(value)
    \/ \E message \in CustomMessages : WithMessage(message)
    \/ \E rule \in Rules : RuleCall(rule)
    \/ \E name \in PropertyNames : PropertyEnter(name)
    \/ PropertyExit
    \/ \E name \in ArrayNames : ArrayCall(name)
    \/ ItemEnter
    \/ ItemExit
    \/ Validate

---------------------------------------------------------------------------
(* The specifications *)

Init ==
    /\ InitRetry /\ InitAsync /\ InitCombine /\ InitResult
    /\ InitPromisify /\ InitCause /\ InitValidator

SpecRetry == Init /\ [][NextRetry]_vars

SpecAsync == Init /\ [][NextAsync]_vars

SpecCombine == Init /\ [][NextCombine]_vars

SpecResult == Init /\ [][NextResult]_vars

SpecChain == Init /\ [][NextChain]_vars

SpecBridge == Init /\ [][NextBridge]_vars

SpecCause == Init /\ [][NextCause]_vars

SpecValidator == Init /\ [][NextValidator]_vars

---------------------------------------------------------------------------
(* retry: properties *)

\* retry(fn, {maxAttempts: n, delayMs: d}) was called with both keys given
CalledWithOptions ==
    /\ rpc # "idle"
    /\ options.form = "object"
    /\ options.maxAttempts # Undefined
    /\ options.delayMs # Undefined

GivenN == options.maxAttempts.n

GivenD == options.delayMs.n

\* the attempts that have ended so far all failed
AllFailed == \A i \in 1 .. Len(attemptLog) : attemptLog[i] = "fail"

\* the number of attempts that have ended in failure
Failures == Cardinality({i \in 1 .. Len(attemptLog) : attemptLog[i] = "fail"})

Min(a, b) == IF a < b THEN a ELSE b

RECURSIVE SumSeq(_)
SumSeq(q) == IF q = <<>> THEN 0 ELSE Head(q) + SumSeq(Tail(q))

\* C1: with n >= 0, fn is never invoked more than n+1 times and never again
\* after a success; when the first success is attempt k, fn was invoked
\* exactly k times and retry resolves to that attempt's Result; when no
\* attempt succeeds, fn was invoked exactly n+1 times.
C1_InvocationCount ==
    (CalledWithOptions /\ GivenN >= 0) =>
        /\ fnCalls <= GivenN + 1
        /\ \A i \in 1 .. Len(attemptLog) - 1 : attemptLog[i] = "fail"
        /\ rpc = "done" =>
             /\ Len(attemptLog) = fnCalls
             /\ fnCalls >= 1
             /\ IF attemptLog[fnCalls] = "ok"
                THEN /\ fnPromise.state = "fulfilled"
                     /\ fnPromise.value.isSuccess
                     /\ retryPromise = Fulfilled(fnPromise.value)
                ELSE /\ fnCalls = GivenN + 1
                     /\ retryPromise.state = "fulfilled"
                     /\ retryPromise.value.isFailure

\* C1's case: two failures, then the third of at most four attempts succeeds
C1_Witness ==
    /\ CalledWithOptions /\ GivenN = 3
    /\ rpc = "done"
    /\ attemptLog = <<"fail", "fail", "ok">>
    /\ fnCalls = 3
    /\ retryPromise.value.isSuccess

\* C2: the i-th wait is d * 2^(i-1); one wait is scheduled per failing
\* attempt that is not attempt n+1, none after a success; when every attempt
\* failed the waits sum to d * (2^n - 1).
C2_BackoffWaits ==
    (CalledWithOptions /\ GivenN >= 0) =>
        /\ \A i \in 1 .. Len(waits) : waits[i] = GivenD * 2 ^ (i - 1)
        /\ Len(waits) = IF rpc = "afterAttempt"
                        THEN Min(Failures - 1, GivenN)
                        ELSE Min(Failures, GivenN)
        /\ (rpc = "done" /\ AllFailed) =>
               SumSeq(waits) = GivenD * (2 ^ GivenN - 1)

\* C2's case: four failing attempts with d = 10 waited 10, 20 and 40
C2_Witness ==
    /\ CalledWithOptions /\ GivenN = 3 /\ GivenD = 10
    /\ rpc = "done" /\ AllFailed
    /\ waits = <<10, 20, 40>>

\* the error retry must report for the final attempt's outcome
ExpectedError(outcome) ==
    IF outcome.how = "failure" THEN outcome.val._error
    ELSE IF InstanceofError(outcome.val) THEN outcome.val
    ELSE TechnicalError(JsString(outcome.val), "new")

\* C3: retry's promise never rejects; an attempt that throws or rejects
\* counts as a failed attempt, is followed by the same wait and never ends
\* retry before attempt n+1; when every attempt failed, retry resolves to a
\* failure with the final attempt's error (the returned failure's error
\* object, the thrown Error, or a new error object made from a thrown
\* non-Error). A returned failure that holds no error object has none to
\* report, and the last conjunct leaves that case open.
C3_NeverRejects ==
    /\ retryPromise.state # "rejected"
    /\ lastOutcome.how \in {"threw", "rejected"} =>
          /\ attemptLog[Len(attemptLog)] = "fail"
          /\ rpc \in {"afterAttempt", "sleep", "loop", "awaitFn", "done"}
          /\ rpc = "sleep" => timer = Pending /\ Len(waits) = attempt + 1
          /\ rpc = "done" => fnCalls = maxAttempts + 1
    /\ (rpc = "done" /\ fnCalls >= 1 /\ AllFailed) =>
          /\ retryPromise.state = "fulfilled"
          /\ retryPromise.value.isFailure
          /\ ~retryPromise.value._isCancelled
          /\ ExpectedError(lastOutcome) # Undefined =>
                retryPromise.value._error = ExpectedError(lastOutcome)

\* C3's case: the last of three attempts threw a string
C3_Witness ==
    /\ rpc = "done" /\ fnCalls = 3 /\ AllFailed
    /\ lastOutcome = [how |-> "threw", val |-> StrVal("boom")]
    /\ retryPromise.value._error.message = "Technical Error: boom"

\* no attempt is under way and no wait is running
Quiescent == inFlight = 0 /\ timer = NoPromise

\* C4: at most one promise returned by fn is pending, and none while the
\* backoff timer runs; fn is invoked only when no earlier attempt is in
\* flight, every earlier attempt has ended in failure, and a wait was
\* scheduled after each of them and has elapsed.
C4_Sequential ==
    /\ [](/\ inFlight <= 1
          /\ timer = Pending => inFlight = 0
          /\ inFlight = 1 => fnPromise = Pending /\ rpc = "awaitFn")
    /\ [][fnCalls' # fnCalls =>
            /\ fnCalls' = fnCalls + 1
            /\ Quiescent
            /\ Len(attemptLog) = fnCalls
            /\ AllFailed
            /\ Len(waits) = fnCalls]_vars

\* C4's case: the third attempt is in flight
C4_Witness ==
    /\ rpc = "awaitFn" /\ fnCalls = 3 /\ inFlight = 1
    /\ Len(waits) = 2

---------------------------------------------------------------------------
(* asyncMap, asyncFlatMap, fromPromise, flatMap: properties *)

AsyncMapOrFlatMap == call.name \in {"asyncMap", "asyncFlatMap"}

RacingOperator == call.name \in {"asyncMap", "asyncFlatMap", "fromPromise"}

\* the operator's promise has resolved to a Result
Resolved == apc = "done" /\ opPromise.state = "fulfilled"

\* C5: asyncMap and asyncFlatMap called on a failure never invoke f and
\* resolve, at once, to a failure with the receiver's own error object.
C5_FailureSkipsTransformer ==
    (AsyncMapOrFlatMap /\ call.self.isFailure) =>
        /\ fCalls = 0
        /\ Resolved
        /\ opPromise.value.isFailure
        /\ opPromise.value._error = call.self._error

\* C5's case: asyncFlatMap on fail(E1), with a signal given
C5_Witness ==
    /\ call.name = "asyncFlatMap" /\ call.self = ResultFail(E1)
    /\ call.hasSignal
    /\ Resolved /\ opPromise.value._error = E1

\* the operator was given a signal that had fired before the call
CalledWithAbortedSignal ==
    /\ RacingOperator
    /\ call.hasSignal
    /\ hist.abortedAtCall
    /\ IF call.name = "fromPromise" THEN TRUE ELSE call.self.isSuccess

\* C6: with the signal already aborted at the call, asyncMap and asyncFlatMap
\* on a success, and fromPromise, resolve to a cancelled failure and f is
\* never invoked.
C6_AbortedBeforeCall ==
    CalledWithAbortedSignal =>
        /\ Resolved
        /\ opPromise.value._isCancelled
        /\ opPromise.value.isFailure
        /\ fCalls = 0

\* C6's case: asyncMap on ok(42) with an aborted signal
C6_Witness ==
    /\ call.name = "asyncMap" /\ CalledWithAbortedSignal
    /\ Resolved /\ opPromise.value._isCancelled

\* C7: when the signal fires while the underlying operation is pending (its
\* promise is returned to the operator and settles later, if at all), the
\* Result the operator resolves to is cancelled, in every state from the
\* operator's return on, whatever the operation does later.
C7_AbortWhilePendingCancels ==
    (RacingOperator /\ call.hasSignal /\ hist.abortWhilePending
        /\ hist.fThrew = NoCompletion /\ apc = "done") =>
        /\ Resolved
        /\ opPromise.value._isCancelled

\* C8: when f's promise fulfils before the signal fires, asyncMap resolves to
\* success with the fulfilled value and asyncFlatMap to the inner Result, also
\* when the signal fires before the continuation runs.
C8_FulfilledFirstWins ==
    (AsyncMapOrFlatMap /\ call.hasSignal /\ hist.settledFirst = "fulfilled"
        /\ apc = "done") =>
        /\ opPromise.state = "fulfilled"
        /\ IF call.name = "asyncMap"
           THEN /\ opPromise.value.isSuccess
                /\ ~opPromise.value._isCancelled
                /\ opPromise.value._value = resultPromise.value
           ELSE opPromise.value = resultPromise.value

\* C8's case: the signal fired after the fulfilment while the operator was
\* still awaiting the race
C8_Witness ==
    /\ call.name = "asyncMap" /\ call.hasSignal
    /\ hist.settledFirst = "fulfilled" /\ hist.abortAt = "awaitRace"
    /\ Resolved /\ opPromise.value = ResultOk(NumVal(84))

\* C9: when the underlying promise rejects before the signal fires, the
\* operator resolves to a failure that is not cancelled and carries the
\* rejection error, also when the signal fires before the continuation runs.
C9_RejectedFirstWins ==
    (RacingOperator /\ call.hasSignal /\ hist.settledFirst = "rejected"
        /\ apc = "done") =>
        /\ opPromise.state = "fulfilled"
        /\ opPromise.value.isFailure
        /\ ~opPromise.value._isCancelled
        /\ opPromise.value._error = NormalizeError(resultPromise.value)

\* C10: flatMap never throws and asyncMap and asyncFlatMap never reject; when
\* the transformer throws x or its promise rejects with x, the operator
\* yields a failure whose error is x, or Error(String(x)) when x is no Error.
C10_TransformerThrowBecomesFailure ==
    /\ completion.type # "throw"
    /\ opPromise.state # "rejected"
    /\ (call.name = "flatMap" /\ call.self.isSuccess
            /\ call.f.type = "throw") =>
          completion = Return(ResultFail(NormalizeError(call.f.value)))
    /\ (AsyncMapOrFlatMap /\ apc = "done" /\ hist.fThrew.type = "throw") =>
          opPromise = Fulfilled(ResultFail(NormalizeError(hist.fThrew.value)))
    /\ (AsyncMapOrFlatMap /\ apc = "done"
            /\ resultPromise.state = "rejected"
            /\ (~call.hasSignal \/ hist.settledFirst = "rejected")) =>
          opPromise =
              Fulfilled(ResultFail(NormalizeError(resultPromise.value)))

---------------------------------------------------------------------------
(* combineResults: properties *)

\* the indexes of the failing elements of the argument
FailingIndexes == {i \in 1 .. Len(results) : results[i].isFailure}

FirstFailing == CHOOSE i \in FailingIndexes : \A j \in FailingIndexes : i <= j

\* C11: when the array holds a failure, combineResults returns a failure
\* whose error is the error object of the failing element of lowest index; no
\* element after that index is ever inspected, and the Result returned holds
\* no value.
C11_FirstFailureWins ==
    (cpc # "idle" /\ FailingIndexes # {}) =>
        /\ inspected \subseteq 1 .. FirstFailing
        /\ cpc = "done" =>
             /\ combined.isFailure /\ ~combined.isSuccess
             /\ combined._error = results[FirstFailing]._error
             /\ inspected = 1 .. FirstFailing
             /\ combined._value = Undefined
             /\ GetValue(combined).type = "throw"

\* C11's case: the second and the third of three elements fail
C11_Witness ==
    /\ cpc = "done"
    /\ results = <<ResultOk(NumVal(1)), ResultFail(EV), ResultFail(E1)>>
    /\ combined._error = EV
    /\ inspected = {1, 2}

\* C12: combineResults returns a success exactly when every element is a
\* success; its value is then the array of the elements' values, of the
\* argument's length and in the argument's order (the empty array for the
\* empty argument).
C12_AllSucceed ==
    cpc = "done" =>
        /\ combined.isSuccess <=> FailingIndexes = {}
        /\ combined.isSuccess =>
             /\ combined._value.t = "array"
             /\ Len(combined._value.items) = Len(results)
             /\ \A i \in 1 .. Len(results) :
                   combined._value.items[i] = results[i]._value
             /\ results = <<>> => combined._value = ArrayVal(<<>>)

\* C12's case: three successes with two different values
C12_Witness ==
    /\ cpc = "done"
    /\ results = <<ResultOk(NumVal(1)), ResultOk(NumVal(2)),
                   ResultOk(NumVal(1))>>
    /\ combined = ResultOk(ArrayVal(<<NumVal(1), NumVal(2), NumVal(1)>>))

---------------------------------------------------------------------------
(* Result objects: properties *)

\* every Result constructed so far, those an awaiting caller has not yet
\* received included
Produced ==
    {heap[i] : i \in 1 .. Len(heap)}
        \cup (IF opPromise.state = "fulfilled" THEN {opPromise.value} ELSE {})
        \cup (IF tryOut.state = "fulfilled" THEN {tryOut.value} ELSE {})
        \cup (IF cpc = "done" THEN {combined} ELSE {})

Returns(c) == c.type = "return"

\* C13: every Result constructed by a factory or an operator has
\* isSuccess # isFailure, and exactly one of its accessors returns: value
\* returns (the payload) exactly on a success and throws on a failure, error
\* returns (the error) exactly on a failure and throws on a success.
C13_ExactlyOneAccessor ==
    \A r \in Produced :
        /\ r.isSuccess # r.isFailure
        /\ Returns(GetValue(r)) <=> r.isSuccess
        /\ Returns(GetError(r)) <=> r.isFailure
        /\ Returns(GetValue(r)) # Returns(GetError(r))
        /\ r.isSuccess => GetValue(r) = Return(r._value)
        /\ r.isFailure => GetError(r) = Return(r._error)

\* C13's case: fromPromise gave a success and flatMap turned it into a
\* failure
C13_Witness ==
    /\ Len(heap) = 2
    /\ last.op = "flatMap"
    /\ heap[1] = ResultOk(NumVal(84)) /\ heap[2] = ResultFail(E2)
    /\ GetError(heap[1]).type = "throw" /\ GetValue(heap[2]).type = "throw"

\* what can be read from a Result
Observe(r) ==
    <<r.isSuccess, r.isFailure, GetIsCancelled(r), GetValue(r), GetError(r)>>

\* C14: no call of an operator and no attempted assignment to a field
\* changes what is read from a Result constructed before: isSuccess,
\* isFailure, isCancelled, value and error stay as they were.
C14_Immutable ==
    [][\A i \in 1 .. Len(heap) :
          /\ i <= Len(heap')
          /\ heap'[i] = heap[i]
          /\ Observe(heap'[i]) = Observe(heap[i])]_vars

\* C14's case: an assignment to a field of the third Result of a chain was
\* attempted and threw
C14_Witness ==
    /\ Len(heap) = 3
    /\ last.op = "assign" /\ last.self = Ref(3)
    /\ last.out.type = "throw"
    /\ heap[1] = ResultOk(NumVal(42))

CancellationKind(e) == e # Undefined /\ e.name = "CancellationError"

\* the object the latest call returned
Returned == Deref(heap, last.out.value)

\* C15: Result.cancelled(id) yields a failure with isCancelled and a
\* CancellationError whose operationId is id; every Result with isCancelled
\* is a failure whose error is a CancellationError; what ok, fail,
\* fromThrowable and combineResults return never has isCancelled.
C15_CancelledIsFailure ==
    /\ last.op = "cancelled" =>
          /\ Returned.isFailure /\ ~Returned.isSuccess
          /\ GetIsCancelled(Returned)
          /\ CancellationKind(GetError(Returned).value)
          /\ GetError(Returned).value.operationId = last.arg
    /\ \A r \in Produced :
          GetIsCancelled(r) => r.isFailure /\ CancellationKind(r._error)
    /\ last.op \in {"ok", "fail", "fromThrowable"} => ~GetIsCancelled(Returned)
    /\ cpc = "done" => ~GetIsCancelled(combined)

\* C15's case: Result.cancelled("op-1")
C15_Witness ==
    /\ last.op = "cancelled" /\ last.arg = StrVal("op-1")
    /\ heap[1]._isCancelled
    /\ heap[1]._error.operationId = StrVal("op-1")

\* the Result an outcome holds
ObjectOf(o) == o.out.value.obj

\* C16: for every Result r and functions f, g: on a success,
\* r.map(f).map(g) and r.map(v => g(f(v))) are successes with the same value;
\* on a failure both are failures with r's own error object and neither f nor
\* g is invoked.
C16_FunctorLaw ==
    \A i \in 1 .. Len(heap) : \A f, g \in ValueFns :
        LET r == heap[i]
            first == Map(r, f)
        IN  IF r.isFailure
            THEN /\ Returns(first.out) /\ first.calls = <<>>
                 /\ LET second == Map(ObjectOf(first), g)
                        both == MapComposed(r, g, f)
                    IN  /\ Returns(second.out) /\ second.calls = <<>>
                        /\ Returns(both.out) /\ both.calls = <<>>
                        /\ ObjectOf(second).isFailure
                        /\ ObjectOf(both).isFailure
                        /\ ObjectOf(second)._error = r._error
                        /\ ObjectOf(both)._error = r._error
            ELSE (Accepts(f, r._value) /\ Returns(first.out)
                    /\ Accepts(g, ObjectOf(first)._value)) =>
                 LET second == Map(ObjectOf(first), g)
                     both == MapComposed(r, g, f)
                 IN  /\ second.out.type = both.out.type
                     /\ Returns(second.out) =>
                          /\ ObjectOf(second).isSuccess
                          /\ Observe(ObjectOf(second)) = Observe(ObjectOf(both))
                          /\ ObjectOf(second)._value =
                                CallFn(g, CallFn(f, r._value).value).value

\* C16's case: ok(42).map(x => x * 2).map(x => x.toString())
C16_Witness ==
    /\ heap = <<ResultOk(NumVal(42)), ResultOk(NumVal(84)),
                ResultOk(StrVal("84"))>>
    /\ last.op = "map" /\ last.f = "toString" /\ last.self = Ref(2)

\* C17: once a Result of a chain of map, flatMap, tap, asyncMap and
\* asyncFlatMap calls is a failure, no function handed to a later call is
\* invoked, and every later Result of the chain is a failure with the error
\* object of that first failure.
C17_ShortCircuit ==
    chain.failed # NoRef =>
        /\ chain.calls = 0
        /\ fCalls = 0
        /\ Self.isFailure
        /\ Self._error = Deref(heap, chain.failed)._error
        /\ last.out.type # "throw"
        /\ opPromise.state = "fulfilled" =>
              /\ opPromise.value.isFailure
              /\ opPromise.value._error = Deref(heap, chain.failed)._error

\* C17's case: flatMap turned a success into a failure, which then went
\* through asyncMap
C17_Witness ==
    /\ Len(heap) = 3
    /\ heap[1].isSuccess
    /\ chain.failed = Ref(2) /\ heap[2] = ResultFail(E2)
    /\ last.op = "asyncMap" /\ cur = Ref(3)
    /\ heap[3]._error = E2

\* C18: tap invokes f once, with the value, on a success and never on a
\* failure; tapError invokes f once, with the error, on a failure and never on
\* a success; both return the Result they were called on.
C18_TapReturnsReceiver ==
    /\ last.op = "tap" =>
          /\ last.out = Return(last.self) /\ cur = last.self
          /\ last.calls = IF Deref(heap, last.self).isSuccess
                          THEN <<Deref(heap, last.self)._value>> ELSE <<>>
    /\ last.op = "tapError" =>
          /\ last.out = Return(last.self) /\ cur = last.self
          /\ last.calls = IF Deref(heap, last.self).isFailure
                          THEN <<Deref(heap, last.self)._error>> ELSE <<>>

\* C18's case: tap on a failure
C18_Witness ==
    /\ last.op = "tap"
    /\ Self = ResultFail(E1)
    /\ last.calls = <<>>
    /\ last.out = Return(cur)

\* C19: fromThrowable(f) never throws: it returns a success with f's value
\* when f returns, a failure with the Error f threw (the same object), and a
\* failure with a new Error whose message is String(x) when f threw x that is
\* no Error.
C19_FromThrowableNeverThrows ==
    last.op = "fromThrowable" =>
        /\ Returns(last.out)
        /\ IF Returns(last.arg)
           THEN Returned.isSuccess /\ GetValue(Returned) = last.arg
           ELSE /\ Returned.isFailure
                /\ ~GetIsCancelled(Returned)
                /\ IF InstanceofError(last.arg.value)
                   THEN Returned._error = last.arg.value
                   ELSE /\ Returned._error.name = "Error"
                        /\ Returned._error.message = JsString(last.arg.value)
                        /\ Returned._error.ref = "new"

\* C19's case: f threw the number 42
C19_Witness ==
    /\ last.op = "fromThrowable" /\ last.arg = Throw(NumVal(42))
    /\ heap[1]._error.message = "42"

\* tryCatchAsync has resolved after fn threw, or rejected with, a value that
\* is no Error
TryCaughtNonError ==
    /\ last.op = "tryCatchAsync"
    /\ last.arg.type = "throw"
    /\ ~InstanceofError(last.arg.value)

\* C20, as stated: the failure tryCatchAsync produces for a thrown non-Error
\* x has the error kind and the message (String(x)) of the failure
\* fromThrowable produces for x.
C20_SameNormalization ==
    TryCaughtNonError =>
        /\ Returned._error.name = FromThrowable(last.arg)._error.name
        /\ Returned._error.message = FromThrowable(last.arg)._error.message
        /\ Returned._error.message = JsString(last.arg.value)

\* C20, amended: for a thrown non-Error x tryCatchAsync produces a failure
\* with a TechnicalError whose message is "Technical Error: " followed by
\* String(x), where fromThrowable produces an Error whose message is
\* String(x).
C20_TechnicalErrorNormalization ==
    TryCaughtNonError =>
        /\ Returned.isFailure
        /\ Returned._error.name = "TechnicalError"
        /\ FromThrowable(last.arg)._error.name = "Error"
        /\ Returned._error.message =
              "Technical Error: " \o FromThrowable(last.arg)._error.message
        /\ Returned._error.message =
              "Technical Error: " \o JsString(last.arg.value)

\* C20's case: the function given to tryCatchAsync threw the string "boom"
C20_Witness ==
    /\ TryCaughtNonError
    /\ last.arg = Throw(StrVal("boom"))
    /\ heap[1]._error.message = "Technical Error: boom"


---------------------------------------------------------------------------
(* tryCatchAsync and promisifyWithResult: properties *)

\* e is x itself if x is an Error, else a TechnicalError made of String(x)
KeptOrWrapped(x, e) ==
    IF InstanceofError(x) THEN e = x
    ELSE /\ InstanceofError(e)
         /\ e.name = "TechnicalError"
         /\ e.message = "Technical Error: " \o JsString(x)

\* the first thing fn did reported an error: it threw, or it invoked the
\* callback with a first argument that counts as an error
FirstReportsError ==
    /\ events # <<>>
    /\ events[1].kind = "callback" => Truthy(events[1].error)

\* C21: tryCatchAsync and promisifyWithResult keep an Error that was thrown,
\* rejected with or handed to the callback as the failure's error, the same
\* object, and wrap whatever else was thrown or reported in a TechnicalError
\* whose message holds String(x). (A first callback argument that is falsy
\* reports no error: that is the success case of C22.)
C21_ErrorKeptOrWrapped ==
    /\ tpc = "done" /\ tryThrown.type = "throw" =>
            /\ tryOut.state = "fulfilled"
            /\ tryOut.value.isFailure
            /\ ~tryOut.value._isCancelled
            /\ KeptOrWrapped(tryThrown.value, tryOut.value._error)
    /\ FirstReportsError =>
            /\ promisified.state = "fulfilled"
            /\ promisified.value.isFailure
            /\ KeptOrWrapped(events[1].error, promisified.value._error)

\* C21's case: tryCatchAsync caught a string and an Error was handed to the
\* callback, or the other way round
C21_Witness ==
    /\ tpc = "done" /\ tryThrown.type = "throw"
    /\ FirstReportsError
    /\ InstanceofError(tryThrown.value) # InstanceofError(events[1].error)
    /\ events[1].kind = "callback"

\* what the first event settles the promise with
SettledBy(ev, r) ==
    IF ev.kind = "throw" \/ Truthy(ev.error) THEN r.isFailure
    ELSE r.isSuccess /\ r._value = ev.result

\* C22: the promise of promisifyWithResult never rejects; it is pending until
\* fn throws or invokes the callback, and from then on it is fulfilled with
\* the Result of that first event, whatever fn does later.
C22_SettlesOnceWithFirst ==
    /\ promisified.state # "rejected"
    /\ ppc # "idle" =>
        IF events = <<>> THEN promisified = Pending
        ELSE /\ promisified.state = "fulfilled"
             /\ SettledBy(events[1], promisified.value)

\* C22's case: the callback reported success and then an error
C22_Witness ==
    /\ Len(events) = 2
    /\ events[1].kind = "callback" /\ ~Truthy(events[1].error)
    /\ events[2].kind = "callback" /\ Truthy(events[2].error)
    /\ promisified.state = "fulfilled"
    /\ promisified.value.isSuccess


---------------------------------------------------------------------------
(* retry: the calls the README shows, and the fallback error *)

\* retry(fn, retries, delay) was called, as the README writes it
CalledPositionally == rpc # "idle" /\ options.form = "number"

\* C23: called as retry(fn, retries, delay), fn is invoked at most
\* retries + 1 times, exactly retries + 1 times when every attempt fails
\* (3 times for retry(fn, 2, 10)), and the i-th wait is delay * 2^(i-1).
C23_PositionalRetries ==
    CalledPositionally =>
        /\ fnCalls <= options.n + 1
        /\ (rpc = "done" /\ AllFailed) => fnCalls = options.n + 1
        /\ \A i \in 1 .. Len(waits) : waits[i] = options.delay * 2 ^ (i - 1)

\* retry(fn) or retry(fn, {}) was called
CalledWithDefaults ==
    /\ rpc # "idle"
    /\ options.form = "object"
    /\ options.maxAttempts = Undefined
    /\ options.delayMs = Undefined

\* C24: with the options omitted, fn is invoked at most 4 times and the
\* waits are 300, 600, 1200 in this order; an fn that always fails is
\* invoked exactly 4 times and all three waits are made.
C24_Defaults ==
    CalledWithDefaults =>
        /\ fnCalls <= 4
        /\ waits = SubSeq(<<300, 600, 1200>>, 1, Len(waits))
        /\ (rpc = "done" /\ AllFailed) =>
                /\ fnCalls = 4
                /\ waits = <<300, 600, 1200>>

\* C24's case: retry(fn) with an fn that failed each time
C24_Witness ==
    /\ CalledWithDefaults
    /\ rpc = "done" /\ AllFailed
    /\ fnCalls = 4
    /\ Len(waits) = 3

\* retry resolved to the failure it makes up when it has no error to report
IsFallback ==
    /\ retryPromise.state = "fulfilled"
    /\ retryPromise.value.isFailure
    /\ retryPromise.value._error =
            TechnicalError("Failed after " \o ToString(maxAttempts)
                               \o " attempts", "new")

\* the latest failure fn returned, if any, carries an error
LastFailureHasError ==
    lastOutcome.how = "failure" => lastOutcome.val._error # Undefined

\* C29: when the failures fn returned carry an error (it is the latest that
\* matters), retry resolves to the fallback TechnicalError exactly if fn was
\* never invoked, which is exactly if maxAttempts < 0; with maxAttempts = 0
\* fn is invoked once and no wait is scheduled.
C29_FallbackOnlyWithoutAttempt ==
    (rpc = "done" /\ LastFailureHasError) =>
        /\ IsFallback <=> fnCalls = 0
        /\ fnCalls = 0 <=> maxAttempts < 0
        /\ maxAttempts = 0 => fnCalls = 1 /\ waits = <<>>

\* C29's case: retry(fn, {maxAttempts: -1}) returned the fallback
C29_Witness ==
    /\ rpc = "done"
    /\ maxAttempts = -1
    /\ fnCalls = 0
    /\ IsFallback
    /\ retryPromise.value._error.message
            = "Technical Error: Failed after -1 attempts"


---------------------------------------------------------------------------
(* Cancelled Results under the operators *)

\* the latest call was made on a cancelled Result and has returned a Result
ReturnedFromCancelled ==
    /\ last.self # NoRef
    /\ last.op \in {"map", "mapError", "flatMap", "tap", "tapError",
                    "recover", "orElse", "asyncMap", "asyncFlatMap"}
    /\ last.out.type = "return"
    /\ GetIsCancelled(Deref(heap, last.self))

\* C27: map, flatMap, asyncMap and asyncFlatMap called on a cancelled Result
\* return another Result, a failure with the receiver's CancellationError
\* and isCancelled false; mapError returns a failure with isCancelled false
\* (its error is what f made of the CancellationError); tap and tapError
\* return the receiver, which is cancelled; and no operator called on a
\* cancelled Result returns a cancelled Result other than the receiver.
C27_FlagNotCarried ==
    ReturnedFromCancelled =>
        /\ last.op \in {"map", "flatMap", "asyncMap", "asyncFlatMap"} =>
              /\ last.out.value # last.self
              /\ Returned.isFailure
              /\ ~GetIsCancelled(Returned)
              /\ Returned._error = Deref(heap, last.self)._error
              /\ CancellationKind(Returned._error)
        /\ last.op = "mapError" =>
              /\ last.out.value # last.self
              /\ Returned.isFailure
              /\ ~GetIsCancelled(Returned)
              /\ last.calls = <<Deref(heap, last.self)._error>>
        /\ last.op \in {"tap", "tapError"} =>
              /\ last.out.value = last.self
              /\ GetIsCancelled(Returned)
        /\ GetIsCancelled(Returned) => last.out.value = last.self

\* C27's case: asyncFlatMap was called on Result.cancelled("op-1")
C27_Witness ==
    /\ ReturnedFromCancelled
    /\ last.op = "asyncFlatMap"
    /\ Deref(heap, last.self)._error.operationId = StrVal("op-1")
    /\ Returned._error.operationId = StrVal("op-1")
    /\ ~GetIsCancelled(Returned)

\* asyncMap or asyncFlatMap was called on a failure with a signal that was
\* aborted before the call, and has returned
FailedAndAborted ==
    /\ AsyncMapOrFlatMap
    /\ apc = "done"
    /\ call.self.isFailure
    /\ call.hasSignal
    /\ hist.abortedAtCall

\* C28: asyncMap and asyncFlatMap called on a failure with a signal that is
\* already aborted resolve to the receiver's failure, with its error object
\* and isCancelled false, without invoking f and without a listener on the
\* signal.
C28_FailureBeforeCancellation ==
    FailedAndAborted =>
        /\ opPromise.state = "fulfilled"
        /\ opPromise.value.isFailure
        /\ opPromise.value._error = call.self._error
        /\ ~GetIsCancelled(opPromise.value)
        /\ ~signal.listener
        /\ fCalls = 0

\* C28's case: asyncFlatMap on fail(e1) with an aborted signal
C28_Witness ==
    /\ FailedAndAborted
    /\ call.name = "asyncFlatMap"
    /\ call.self = ResultFail(E1)
    /\ signal.aborted
    /\ opPromise = Fulfilled(ResultFail(E1))


---------------------------------------------------------------------------
(* The error classes: properties *)

\* the errors met when following the cause links from error i, at most n
\* steps
RECURSIVE CauseChain(_, _)
CauseChain(i, n) ==
    IF n = 0 \/ i = NoCause \/ i > Len(errs) THEN <<>>
    ELSE <<i>> \o CauseChain(errs[i].cause, n - 1)

\* the error the chain of i ends at
Root(i) == LET c == CauseChain(i, Len(errs)) IN c[Len(c)]

\* every cause was constructed before the error it is the cause of, so the
\* links lead to an error without cause in fewer steps than there are errors,
\* through the errors in the order the stack records
CausesArePrior ==
    \A i \in 1 .. Len(errs) :
        /\ errs[i].cause < i
        /\ errs[i].cause # NoCause => errs[i].cause \in 1 .. Len(errs)
        /\ errs[Root(i)].cause = NoCause
        /\ CauseChain(i, Len(errs)) = errs[i].stack
        /\ \A k \in 1 .. Len(errs[i].stack) - 1 :
                errs[i].stack[k + 1] < errs[i].stack[k]

\* no step changes an error object that exists
CausesKept ==
    \A i \in 1 .. Len(errs) : i <= Len(errs') /\ errs'[i] = errs[i]

\* C25: the cause of an error stays the one its constructor was given; it
\* was constructed strictly earlier; and the cause links from any error lead,
\* in the order of wrapping, to an error without cause in finitely many
\* steps: there is no cycle.
C25_CauseChainsAcyclic == []CausesArePrior /\ [][CausesKept]_vars

\* C25's case: the chain of the test, a BusinessRuleError caused by a
\* NotFoundError caused by a TechnicalError caused by an Error
C25_Witness ==
    /\ Len(errs) = 4
    /\ errs[4].name = "BusinessRuleError" /\ errs[4].cause = 3
    /\ errs[3].name = "NotFoundError" /\ errs[3].cause = 2
    /\ errs[2].name = "TechnicalError" /\ errs[2].cause = 1
    /\ errs[1].name = "Error" /\ errs[1].cause = NoCause
    /\ CauseChain(4, Len(errs)) = <<4, 3, 2, 1>>


---------------------------------------------------------------------------
(* Validator: properties *)

\* the calls made before the k-th on the same validator
EarlierOnSame(k) == {j \in 1 .. k - 1 : vlog[j].v = vlog[k].v}

\* the latest of them
Latest(S) == CHOOSE j \in S : \A i \in S : i <= j

Failing == SelectSeq(vlog, LAMBDA e : e.failed)

\* the text a failing call's message has once '{path}' stands for the place
\* of the validated value: the property path, or 'value' at the root
WithPath(e) ==
    Text(Replace(e.message,
                 IF e.path = <<>> THEN "value" ELSE JoinStr(e.path, ".")))

\* C30: the messages validate() returns name the property path in place of
\* '{path}' for a rule that failed inside property() or inside an item of
\* array() (and 'value' for a rule that failed on the root itself).
C30_PathInCollectedMessages ==
    validated.isFailure =>
        validated._error.message =
            "Validation Error: " \o
                JoinStr([k \in 1 .. Len(Failing) |-> WithPath(Failing[k])],
                        ", ")

=============================================================================
